---- MODULE Spec2Model ----
(***************************************************************************)
(* Model of roboclip's replay pipeline (src/robo-rewind/replay_local_data  *)
(* .py): the nearest-timestamp lookups, the per-session synchronizer       *)
(* driven by main(), the IMU and depth ingestion and the quaternion        *)
(* helpers; of the depth-and-pose flow computation                         *)
(* (src/robo-rewind/compute_optical_flow.py); and of the two bucket        *)
(* programs (src/robo-rewind/mirror_bucket.py, src/sync_supabase_bucket    *)
(* .py).                                                                   *)
(*                                                                         *)
(* Time is measured in integer ticks.  A sample is a record carrying its   *)
(* timestamp and the position it had in its source file (id), so that two  *)
(* samples with equal timestamps remain distinguishable.                   *)
(***************************************************************************)
EXTENDS Integers, Sequences, FiniteSets, TLC

VARIABLES
    query,              \* lookup harness: the arguments (target timestamp, list)
    result,             \* lookup harness: what the two lookups returned
    session_folder,     \* the session's files on disk
    imu_events,         \* main: imu_events / visualize: session_imu_events (same list)
    video_frames,       \* main: decoded frames
    video_timestamps,   \* main: per-frame timestamps (decoded, or from the JSON)
    depth_frames,       \* main: loaded depth frames
    depth_timestamps,   \* main: depth timestamps
    camera_poses,       \* visualize: parse_camera_poses result
    primary,            \* visualize: which branch of lines 393-466 was taken
    primary_timestamps, \* visualize: timeline of the frame loop
    num_frames_to_log,  \* visualize: number of frame-loop iterations
    i,                  \* visualize: loop index (i / imu_idx)
    rr_log,             \* what was handed to the rerun sink, one record per step
    lookups,            \* number of nearest-timestamp lookups performed
    saved_flows,        \* compute_optical_flow.main: the flow files written so far
    pc,                 \* position of the session's processing
    bucket,             \* the names of the files held by the remote bucket
    all_files,          \* mirror_bucket / sync_bucket: what list_bucket_files returned
    local_files,        \* DATA_DIR: per file, absent / partial / complete
    metadata,           \* DATA_DIR / bucket_metadata.json as persisted
    tasks,              \* mirror_bucket: per file, the position of its download_task
    local_metadata,     \* sync_bucket: the list of files of the metadata in memory
    new_files,          \* sync_bucket: the files to download in this run
    file_idx,           \* sync_bucket: loop index over new_files
    success_count,      \* mirror_bucket / sync_bucket: success_count
    run,                \* number of invocations so far
    attempts,           \* history: files handed to download_file in this run
    succeeded,          \* history: files whose download has ever succeeded
    after_clean_run,    \* history: this run directly follows one that listed the bucket and downloaded or skipped every file
    bucket_pc           \* position of the bucket program

bucketVars == <<bucket, all_files, local_files, metadata, tasks, local_metadata,
                new_files, file_idx, success_count, run, attempts, succeeded,
                after_clean_run, bucket_pc>>

vars == <<query, result, session_folder, imu_events, video_frames,
          video_timestamps, depth_frames, depth_timestamps, camera_poses,
          primary, primary_timestamps, num_frames_to_log, i, rr_log,
          lookups, saved_flows, pc, bucketVars>>

sessionVarsOnly == <<session_folder, imu_events, video_frames,
          video_timestamps, depth_frames, depth_timestamps, camera_poses,
          primary, primary_timestamps, num_frames_to_log, i, rr_log,
          lookups, saved_flows, pc>>

sessionVars == <<sessionVarsOnly, bucketVars>>

----------------------------------------------------------------------------
(* Bounds of the model. *)

\* longest sample list handed to the lookup harness
MaxLen == 3
\* largest timestamp (ticks) of the lookup harness
MaxTime == 4
\* most IMU events of a session
MaxImu == 2
\* most decoded video frames / video_timestamps.json entries of a session
MaxVideo == 2
\* most depth files of a session
MaxDepth == 2
\* most entries of a session's camera_poses.json
MaxPose == 1
\* highest depth grid of the geometry calls
MaxH == 2
\* widest depth grid of the geometry calls
MaxW == 2
\* longest IMU log of the parse_imu_bin calls
MaxLines == 3

----------------------------------------------------------------------------
(* Python values. *)

None == [none |-> TRUE]

Abs(x) == IF x < 0 THEN -x ELSE x

Sample(ts, id) == [timestamp |-> ts, id |-> id]

\* [e["timestamp"] for e in events]
Timestamps(events) == [k \in 1..Len(events) |-> events[k].timestamp]

IsSorted(ts) == \A k \in 1..(Len(ts) - 1) : ts[k] <= ts[k + 1]

----------------------------------------------------------------------------
(* Nearest-timestamp lookup. *)

\* np.searchsorted(a, v, side="left") for one key: numpy's binary search
\* over the half-open index window [lo, hi) (0-based).
RECURSIVE BinSearchLeft(_, _, _, _)
BinSearchLeft(a, v, lo, hi) ==
    IF lo < hi
    THEN LET mid == lo + ((hi - lo) \div 2)
         IN  IF a[mid + 1] < v
             THEN BinSearchLeft(a, v, mid + 1, hi)
             ELSE BinSearchLeft(a, v, lo, mid)
    ELSE lo

searchsorted(a, v) == BinSearchLeft(a, v, 0, Len(a))

\* the comparison of lines 234 / 273: TRUE selects the sample before the
\* insertion point, FALSE the one at it
closer_before_or_tie(target, before, after) == (target - before) <= (after - target)

closer_after(target, before, after) == (target - before) > (after - target)

closer_before(target, before, after) == (target - before) < (after - target)

\* find_closest_imu_event without the clamp of lines 226-227: at idx = 0
\* Python's imu_timestamps[idx-1] is the last element
find_closest_imu_index_unclamped(target_timestamp, events) ==
    IF events = <<>> THEN -1
    ELSE LET imu_timestamps == Timestamps(events)
             n == Len(imu_timestamps)
             idx == BinSearchLeft(imu_timestamps, target_timestamp, 0, n)
         IN  IF idx = n THEN n - 1
             ELSE IF (target_timestamp - imu_timestamps[IF idx = 0 THEN n ELSE idx])
                        < (imu_timestamps[idx + 1] - target_timestamp)
                  THEN (IF idx = 0 THEN n - 1 ELSE idx - 1)
                  ELSE idx

\* 0-based index chosen by find_closest_imu_event, -1 for "return None"
find_closest_imu_index(target_timestamp, events) ==
    IF events = <<>> THEN -1
    ELSE LET imu_timestamps == Timestamps(events)
             idx == searchsorted(imu_timestamps, target_timestamp)
         IN  IF idx = 0 THEN 0
             ELSE IF idx = Len(imu_timestamps) THEN Len(events) - 1
             ELSE IF closer_before(target_timestamp, imu_timestamps[idx],
                                   imu_timestamps[idx + 1])
                  THEN idx - 1
                  ELSE idx

find_closest_imu_event(target_timestamp, events) ==
    LET idx == find_closest_imu_index(target_timestamp, events)
    IN  IF idx = -1 THEN None ELSE events[idx + 1]

\* 0-based index chosen by find_closest_pose, -1 for "return None"
find_closest_pose_index(timestamp, poses) ==
    IF poses = <<>> THEN -1
    ELSE LET times == Timestamps(poses)
             idx == searchsorted(times, timestamp)
         IN  IF idx = 0 THEN 0
             ELSE IF idx = Len(times) THEN Len(poses) - 1
             ELSE IF closer_before(timestamp, times[idx], times[idx + 1])
                  THEN idx - 1
                  ELSE idx

find_closest_pose(timestamp, poses) ==
    LET idx == find_closest_pose_index(timestamp, poses)
    IN  IF idx = -1 THEN None ELSE poses[idx + 1]

----------------------------------------------------------------------------
(* Lookup harness: both lookups applied to every sorted list of at most    *)
(* MaxLen samples with timestamps in 0..MaxTime and every query in         *)
(* -1..MaxTime+1.                                                          *)

RECURSIVE SeqsUpTo(_, _)
SeqsUpTo(S, n) ==
    IF n = 0 THEN {<<>>}
    ELSE LET shorter == SeqsUpTo(S, n - 1)
         IN  shorter \cup {Append(s, x) : s \in {q \in shorter : Len(q) = n - 1}, x \in S}

SortedTimestampLists == {ts \in SeqsUpTo(0..MaxTime, MaxLen) : IsSorted(ts)}

AsSamples(ts) == [k \in 1..Len(ts) |-> Sample(ts[k], k - 1)]

Idle == [idle |-> TRUE]

Pending == [pending |-> TRUE]

\* no bucket program runs
BucketIdle ==
    /\ bucket = {}
    /\ all_files = <<>>
    /\ local_files = <<>>
    /\ metadata = Idle
    /\ tasks = <<>>
    /\ local_metadata = <<>>
    /\ new_files = <<>>
    /\ file_idx = 0
    /\ success_count = 0
    /\ run = 0
    /\ attempts = {}
    /\ succeeded = {}
    /\ after_clean_run = FALSE
    /\ bucket_pc = "Idle"

SessionIdle ==
    /\ session_folder = Idle
    /\ imu_events = <<>>
    /\ video_frames = <<>>
    /\ video_timestamps = <<>>
    /\ depth_frames = <<>>
    /\ depth_timestamps = <<>>
    /\ camera_poses = Idle
    /\ primary = "none"
    /\ primary_timestamps = <<>>
    /\ num_frames_to_log = 0
    /\ i = 0
    /\ rr_log = <<>>
    /\ lookups = 0
    /\ saved_flows = <<>>
    /\ pc = "Idle"

InitNearest ==
    /\ query \in {[t |-> t, S |-> AsSamples(ts)] :
                     t \in (-1)..(MaxTime + 1), ts \in SortedTimestampLists}
    /\ result = Pending
    /\ SessionIdle
    /\ BucketIdle

Lookup ==
    /\ result = Pending
    /\ result' = [imu      |-> find_closest_imu_event(query.t, query.S),
                  pose     |-> find_closest_pose(query.t, query.S),
                  imu_idx  |-> find_closest_imu_index(query.t, query.S),
                  pose_idx |-> find_closest_pose_index(query.t, query.S)]
    /\ UNCHANGED <<query, sessionVars>>

NextNearest == Lookup

SpecNearest == InitNearest /\ [][NextNearest]_vars

----------------------------------------------------------------------------
(* Floating-point values of the geometry code (compute_optical_flow.py).   *)
(* A finite value is an exact fraction n/d in lowest terms with d > 0;     *)
(* d = 0 stands for the non-finite values: n = 0 is not-a-number, n = 1    *)
(* and n = -1 are the infinities.  Rounding is not modelled, and a zero    *)
(* carries no sign.                                                        *)

RECURSIVE GCD(_, _)
GCD(a, b) == IF b = 0 THEN a ELSE GCD(b, a % b)

Sign(x) == IF x > 0 THEN 1 ELSE IF x < 0 THEN -1 ELSE 0

Rat(n, d) ==
    IF d = 0 THEN [n |-> Sign(n), d |-> 0]
    ELSE LET g == GCD(Abs(n), Abs(d))
         IN  [n |-> (Sign(d) * n) \div g, d |-> Abs(d) \div g]

Float(k) == [n |-> k, d |-> 1]

NaN == [n |-> 0, d |-> 0]

IsNaN(x) == x.d = 0 /\ x.n = 0

IsFinite(x) == x.d # 0

FNeg(a) == [n |-> -a.n, d |-> a.d]

FAdd(a, b) ==
    IF a.d # 0 /\ b.d # 0 THEN Rat(a.n * b.d + b.n * a.d, a.d * b.d)
    ELSE IF IsNaN(a) \/ IsNaN(b) THEN NaN
    ELSE IF a.d = 0 /\ b.d = 0 THEN (IF a.n = b.n THEN a ELSE NaN)
    ELSE IF a.d = 0 THEN a ELSE b

FSub(a, b) == FAdd(a, FNeg(b))

FMul(a, b) == Rat(a.n * b.n, a.d * b.d)

FInv(b) ==
    IF b.d = 0 THEN (IF b.n = 0 THEN NaN ELSE Float(0))
    ELSE Rat(b.d, b.n)

FDiv(a, b) == FMul(a, FInv(b))

\* x > 0 on floats: false for not-a-number
FGt0(x) == x.n > 0

----------------------------------------------------------------------------
(* Quaternions (replay_local_data.py), in [x, y, z, w] order.  The         *)
(* products go through scipy's Rotation, which normalizes every quaternion *)
(* it is given and rejects one whose norm is zero or not a number.         *)

\* the square root of a perfect square
ISqrt(n) == CHOOSE k \in 0..n : k * k = n

\* np.sqrt on the floats used here: squares of fractions, and the
\* non-finite values
FSqrt(x) == IF x.d = 0 THEN x ELSE Rat(ISqrt(x.n), ISqrt(x.d))

\* np.linalg.norm of a vector
linalg_norm(v) ==
    LET square(k) == FMul(v[k], v[k])
        RECURSIVE sum(_)
        sum(k) == IF k = 0 THEN Float(0) ELSE FAdd(sum(k - 1), square(k))
    IN  FSqrt(sum(Len(v)))

\* np.isfinite(v).all()
all_finite(v) == \A k \in 1..Len(v) : IsFinite(v[k])

Scaled(v, s) == [k \in 1..Len(v) |-> FDiv(v[k], s)]

Quat(x, y, z, w) == <<x, y, z, w>>

IdentityQuaternion == Quat(Float(0), Float(0), Float(0), Float(1))

\* the Hamilton product p * q
compose_quat(p, q) ==
    Quat(FAdd(FAdd(FMul(p[4], q[1]), FMul(p[1], q[4])),
              FSub(FMul(p[2], q[3]), FMul(p[3], q[2]))),
         FAdd(FAdd(FMul(p[4], q[2]), FMul(p[2], q[4])),
              FSub(FMul(p[3], q[1]), FMul(p[1], q[3]))),
         FAdd(FAdd(FMul(p[4], q[3]), FMul(p[3], q[4])),
              FSub(FMul(p[1], q[2]), FMul(p[2], q[1]))),
         FSub(FSub(FSub(FMul(p[4], q[4]), FMul(p[1], q[1])),
                   FMul(p[2], q[2])),
              FMul(p[3], q[3])))

\* R.from_quat: ValueError ("Found zero norm quaternions") for a quaternion
\* whose norm is zero or not a number, else the quaternion divided by its
\* norm
from_quat_raises(q) == linalg_norm(q) = Float(0) \/ IsNaN(linalg_norm(q))

from_quat(q) == Scaled(q, linalg_norm(q))

\* quaternion_multiply, lines 109-115
quaternion_multiply_raises(q1, q2) == from_quat_raises(q1) \/ from_quat_raises(q2)

quaternion_multiply(q1, q2) ==
    from_quat(compose_quat(from_quat(q1), from_quat(q2)))

\* rotate_vector_by_quaternion, lines 144-155
rotate_vector_by_quaternion(v, q) ==
    LET v_quat == Quat(v[1], v[2], v[3], Float(0))
        q_conj == Quat(FNeg(q[1]), FNeg(q[2]), FNeg(q[3]), q[4])
    IN  IF quaternion_multiply_raises(q, v_quat)
        THEN [raised |-> TRUE, value |-> <<>>]
        ELSE LET qv == quaternion_multiply(q, v_quat)
             IN  IF quaternion_multiply_raises(qv, q_conj)
                 THEN [raised |-> TRUE, value |-> <<>>]
                 ELSE [raised |-> FALSE,
                       value  |-> SubSeq(quaternion_multiply(qv, q_conj), 1, 3)]

\* An angle is given by the cosine and the sine of its half.
Angle(c, s) == [cos_half |-> c, sin_half |-> s]

\* R.from_euler('zyx', [yaw, pitch, roll]).as_quat(): extrinsic rotations
\* about z, then y, then x
from_euler_zyx(yaw, pitch, roll) ==
    LET qz == Quat(Float(0), Float(0), yaw.sin_half, yaw.cos_half)
        qy == Quat(Float(0), pitch.sin_half, Float(0), pitch.cos_half)
        qx == Quat(roll.sin_half, Float(0), Float(0), roll.cos_half)
    IN  compose_quat(qx, compose_quat(qy, qz))

\* visualize, line 315
q_imuSensor_to_arkitDevice_xyzw == IdentityQuaternion

\* visualize, lines 326-327: a half turn about X
q_arkitDevice_to_rerunCam_xyzw == Quat(Float(1), Float(0), Float(0), Float(0))

\* arkit_device_orientation_from_imu, lines 117-142, with the identity
\* sensor-to-device rotation of line 315
arkit_device_orientation_from_imu(roll, pitch, yaw) ==
    from_euler_zyx(yaw, pitch, roll)

\* visualize, lines 433 and 567
NormThreshold == Rat(1, 1000000)

FGt(a, b) == FGt0(FSub(a, b))

\* what becomes of the camera rotation: the composition raises, nothing
\* reaches rr.log, or a quaternion does
OrientationRaised ==
    [raised |-> TRUE, emitted |-> FALSE, rotation |-> <<>>, identity_fallback |-> FALSE]

NotEmitted ==
    [raised |-> FALSE, emitted |-> FALSE, rotation |-> <<>>, identity_fallback |-> FALSE]

Emitted(q, fallback) ==
    [raised |-> FALSE, emitted |-> TRUE, rotation |-> q, identity_fallback |-> fallback]

\* lines 422-427 and 556-561: the quaternion_multiply of the device
\* orientation with the device-to-camera rotation raises ValueError
camera_orientation_raises(attitude) ==
    quaternion_multiply_raises(
        arkit_device_orientation_from_imu(attitude.roll, attitude.pitch, attitude.yaw),
        q_arkitDevice_to_rerunCam_xyzw)

\* the IMU-only loop composing with the plain Hamilton product and without
\* the finiteness test of line 436
imu_only_camera_orientation_unguarded(attitude) ==
    LET q_device == arkit_device_orientation_from_imu(
                        attitude.roll, attitude.pitch, attitude.yaw)
        q_final  == compose_quat(q_device, q_arkitDevice_to_rerunCam_xyzw)
        norm     == linalg_norm(q_final)
        q_out    == IF FGt(norm, NormThreshold) THEN Scaled(q_final, norm) ELSE q_final
    IN  Emitted(q_out, FALSE)

\* the IMU-only loop, lines 422-444: the composition raises, or the
\* quaternion is normalized in place when the norm exceeds the threshold
\* and logged when finite
imu_only_camera_orientation(attitude) ==
    IF camera_orientation_raises(attitude) THEN OrientationRaised
    ELSE
    LET q_device == arkit_device_orientation_from_imu(
                        attitude.roll, attitude.pitch, attitude.yaw)
        q_final  == quaternion_multiply(q_device, q_arkitDevice_to_rerunCam_xyzw)
        norm     == linalg_norm(q_final)
        q_out    == IF FGt(norm, NormThreshold) THEN Scaled(q_final, norm) ELSE q_final
    IN  IF all_finite(q_out) THEN Emitted(q_out, FALSE) ELSE NotEmitted

\* the frame loop, lines 556-585: the composition raises, or the quaternion
\* is normalized when the norm exceeds the threshold, else the identity,
\* and logged when it and the translation are finite
frame_loop_camera_orientation(attitude, translation) ==
    IF camera_orientation_raises(attitude) THEN OrientationRaised
    ELSE
    LET q_device == arkit_device_orientation_from_imu(
                        attitude.roll, attitude.pitch, attitude.yaw)
        q_final  == quaternion_multiply(q_device, q_arkitDevice_to_rerunCam_xyzw)
        norm     == linalg_norm(q_final)
        normalized == FGt(norm, NormThreshold)
        q_out    == IF normalized THEN Scaled(q_final, norm) ELSE IdentityQuaternion
    IN  IF all_finite(q_out) /\ all_finite(translation)
        THEN Emitted(q_out, ~normalized) ELSE NotEmitted
----------------------------------------------------------------------------
(* One session: main() loads the streams of session_folder and calls       *)
(* visualize_single_session_in_rerun, which sorts the IMU events, selects  *)
(* the primary stream and runs either the IMU-only loop or the frame loop. *)

Unloaded == [unloaded |-> TRUE]

\* a file that may be missing, and a list that may be None
NoFile == [exists |-> FALSE]

File(data) == [exists |-> TRUE, data |-> data]

PoseList(poses) == [poses |-> poses]

Pose(ts, id, m) == [timestamp |-> ts, id |-> id, matrix |-> m]

\* range(n) as a sequence
Range0(n) == [k \in 1..n |-> k - 1]

\* list.sort(key=lambda e: e["timestamp"]): stable insertion of e into a
\* sorted list, after every element whose key is <= e's
RECURSIVE InsertSorted(_, _)
InsertSorted(sorted, e) ==
    IF sorted = <<>> THEN <<e>>
    ELSE IF sorted[Len(sorted)].timestamp <= e.timestamp
         THEN Append(sorted, e)
         ELSE Append(InsertSorted(SubSeq(sorted, 1, Len(sorted) - 1), e),
                     sorted[Len(sorted)])

RECURSIVE SortPrefix(_, _)
SortPrefix(events, n) ==
    IF n = 0 THEN <<>> ELSE InsertSorted(SortPrefix(events, n - 1), events[n])

sort_by_timestamp(events) == SortPrefix(events, Len(events))

\* load_video_frames: frames 0..n-1, frame k stamped frame_idx / fps
\* (one tick per frame)
load_video_frames(video) ==
    [frames |-> Range0(video), timestamps |-> Range0(video)]

\* load_depth_frames: a timestamp is appended for every file, a frame only
\* for a file of the expected element count.  A frame is named by the index
\* of its file.
RECURSIVE LoadedDepth(_, _)
\* load_depth_frames giving up at the first file of unexpected size
LoadedDepth_until_bad_file(files, n) ==
    IF n = 0 THEN <<>>
    ELSE IF \A k \in 1..n : files[k].ok
         THEN Append(LoadedDepth(files, n - 1), n - 1)
         ELSE LoadedDepth(files, n - 1)

LoadedDepth(files, n) ==
    IF n = 0 THEN <<>>
    ELSE IF files[n].ok
         THEN Append(LoadedDepth(files, n - 1), n - 1)
         ELSE LoadedDepth(files, n - 1)

load_depth_frames(files) ==
    [frames     |-> LoadedDepth(files, Len(files)),
     timestamps |-> [k \in 1..Len(files) |-> files[k].timestamp],
     warnings   |-> Cardinality({k \in 1..Len(files) : ~files[k].ok})]

\* save_camera_poses_from_imu: one identity pose per IMU event, in the
\* order of the list
save_camera_poses_from_imu(events) ==
    [k \in 1..Len(events) |-> Pose(events[k].timestamp, k - 1, "identity")]

\* parse_camera_poses: camera_poses.json if it exists, else the
\* camera_poses key of meta.json, else None
parse_camera_poses(folder) ==
    IF folder.camera_poses.exists THEN PoseList(folder.camera_poses.data)
    ELSE IF folder.meta_camera_poses.exists THEN PoseList(folder.meta_camera_poses.data)
    ELSE None

\* main, line 864: nothing was loaded
main_no_data(imu, frames, depth) == imu = <<>> /\ frames = <<>> /\ depth = <<>>

\* main, lines 865-866: report and return
main_no_data_raises == "Raised"

main_no_data_result == "Finished"

\* main, line 871, without the test for an existing pose file
writes_placeholder_always(folder, imu) == imu # <<>>

\* main, line 871: the placeholder pose file is written
writes_placeholder(folder, imu) == ~folder.camera_poses.exists /\ imu # <<>>

\* visualize, line 347
visualize_no_data(frames, depth, imu) == frames = <<>> /\ depth = <<>> /\ imu = <<>>

\* visualize, lines 393-466: the branch taken
select_primary_depth_first(frames, depth, imu) ==
    IF depth # <<>> THEN "depth"
    ELSE IF frames # <<>> THEN "video"
    ELSE IF imu # <<>> THEN "imu"
    ELSE "none"

select_primary(frames, depth, imu) ==
    IF frames # <<>> THEN "video"
    ELSE IF depth # <<>> THEN "depth"
    ELSE IF imu # <<>> THEN "imu"
    ELSE "none"

\* visualize, line 705: the depth lookup runs in this step
depth_is_fetched(frames, timestamps, step) == frames # <<>> /\ timestamps # <<>>

\* visualize, line 709: min(range(len(ts)), key=|ts[j] - t|), the first
\* index of minimum distance (0-based)
closest_depth_idx(timestamps, video_time) ==
    (CHOOSE j \in 1..Len(timestamps) :
        /\ \A k \in 1..Len(timestamps) :
              Abs(timestamps[j] - video_time) <= Abs(timestamps[k] - video_time)
        /\ \A k \in 1..(j - 1) :
              Abs(timestamps[k] - video_time) > Abs(timestamps[j] - video_time)) - 1

\* visualize, lines 526-590: which camera transform the step logs
\* np.allclose(matrix, identity, atol=1e-8), line 504: a pose matrix is the
\* identity, within the tolerance of it with a translation that is not
\* zero, or away from it
allclose_identity(matrix) == matrix \in {"identity", "near_identity"}

\* extract_translation_from_matrix, lines 257-259: the last column
extract_translation_from_matrix(matrix) ==
    IF matrix = "identity" THEN "zero"
    ELSE IF matrix = "near_identity" THEN "within_tolerance"
    ELSE "moved"

camera_transform(pose, imu) ==
    IF pose # None /\ ~allclose_identity(pose.matrix) THEN "pose_matrix"
    ELSE IF imu # None THEN "imu_orientation"
    ELSE "none"

\* visualize, lines 490-590: the camera transforms handed to rr.log in one
\* step.  Case 1 logs the pose matrix times the device-to-view rotation,
\* whose translation is the pose's; case 2 logs the IMU orientation with
\* translation_from_pose, or zero without a pose, unless composing the
\* orientation raises (both are finite when it does not: the quaternion is
\* normalized, the matrix is within the tolerance of the identity)
camera_transforms(pose, imu) ==
    LET translation_from_pose ==
            IF pose # None
            THEN [value |-> extract_translation_from_matrix(pose.matrix)]
            ELSE None
        pose_matrix_for_transform ==
            IF pose # None /\ ~allclose_identity(pose.matrix)
            THEN [matrix |-> pose.matrix]
            ELSE None
    IN  IF pose_matrix_for_transform # None
        THEN <<[rotation |-> "pose_matrix",
                translation |->
                    extract_translation_from_matrix(pose_matrix_for_transform.matrix)]>>
        ELSE IF imu # None
        THEN <<[rotation |-> "imu_orientation",
                translation |-> IF translation_from_pose # None
                                THEN translation_from_pose.value ELSE "zero"]>>
        ELSE <<>>

----------------------------------------------------------------------------
(* Session files.  Timestamps are ticks of the video frame period; a       *)
(* stream recorded on another clock starts at an offset.                   *)

ClockOffsets == {0, 1}

\* the attitude of an IMU event: level, or with a roll that is not a
\* number (parse_imu_bin, lines 52-54: float() accepts "nan")
LevelAttitude ==
    [roll  |-> Angle(Float(1), Float(0)),
     pitch |-> Angle(Float(1), Float(0)),
     yaw   |-> Angle(Float(1), Float(0))]

NaNAttitude == [LevelAttitude EXCEPT !.roll = Angle(NaN, NaN)]

SessionAttitudes == {LevelAttitude, NaNAttitude}

\* lines 422-444 and 556-561 on each attitude a session holds
ImuOnlyOrientationOf == [a \in SessionAttitudes |-> imu_only_camera_orientation(a)]

OrientationRaisesOn == [a \in SessionAttitudes |-> camera_orientation_raises(a)]

ImuEvent(ts, id, attitude) == [timestamp |-> ts, id |-> id, attitude |-> attitude]

\* imu.bin as parsed: n events, evenly spaced from an offset, written in
\* ascending or descending order, all level or the first written with a
\* roll that is not a number
ImuFiles ==
    {[k \in 1..n |-> ImuEvent(IF asc THEN o + (k - 1) ELSE o + (n - k), k - 1,
                              IF nan /\ k = 1 THEN NaNAttitude ELSE LevelAttitude)] :
        n \in 0..MaxImu, o \in ClockOffsets, asc \in BOOLEAN, nan \in BOOLEAN}

\* video_timestamps.json: absent, or m wall-clock entries
VideoTimestampFiles ==
    {NoFile} \cup
    {File([k \in 1..m |-> o + (k - 1)]) : m \in 0..MaxVideo, o \in ClockOffsets}

\* depth/*.d32 in file-name order, each of the expected size or not
DepthDirs ==
    UNION {[1..n -> BOOLEAN] : n \in 0..MaxDepth}

\* the file at position k carries timestamp k - 1 in its name
DepthDirsStamped ==
    {[k \in 1..Len(d) |-> [timestamp |-> k - 1, ok |-> d[k]]] : d \in DepthDirs}

PoseMatrices == {"identity", "near_identity", "moved"}

\* camera_poses.json: absent, or n poses from an offset, all of one kind
PoseFiles ==
    {NoFile} \cup
    {File([k \in 1..n |-> Pose(o + (k - 1), k - 1, m)]) :
        n \in 0..MaxPose, o \in ClockOffsets, m \in PoseMatrices}

\* meta.json: without a camera_poses key, or with one pose
MetaPoses == {NoFile, File(<<Pose(0, 0, "moved")>>)}

SessionFolders ==
    [imu                   : ImuFiles,
     video                 : 0..MaxVideo,
     video_timestamps_json : VideoTimestampFiles,
     depth                 : DepthDirsStamped,
     camera_poses          : PoseFiles,
     meta_camera_poses     : MetaPoses]

Init ==
    /\ query = Idle
    /\ result = Idle
    /\ BucketIdle
    /\ session_folder \in SessionFolders
    /\ imu_events = <<>>
    /\ video_frames = <<>>
    /\ video_timestamps = <<>>
    /\ depth_frames = <<>>
    /\ depth_timestamps = <<>>
    /\ camera_poses = Unloaded
    /\ primary = "none"
    /\ primary_timestamps = <<>>
    /\ num_frames_to_log = 0
    /\ i = 0
    /\ rr_log = <<>>
    /\ lookups = 0
    /\ saved_flows = <<>>
    /\ pc = "NotStarted"

\* main(), lines 806-881, up to the call of visualize_single_session_in_rerun
Main ==
    /\ pc = "NotStarted"
    /\ LET imu    == session_folder.imu
           video  == load_video_frames(session_folder.video)
           stamps == IF session_folder.video_timestamps_json.exists
                     THEN session_folder.video_timestamps_json.data
                     ELSE video.timestamps
           depth  == load_depth_frames(session_folder.depth)
       IN  /\ imu_events' = imu
           /\ video_frames' = video.frames
           /\ video_timestamps' = stamps
           /\ depth_frames' = depth.frames
           /\ depth_timestamps' = depth.timestamps
           /\ IF main_no_data(imu, video.frames, depth.frames)
              THEN /\ pc' = main_no_data_result
                   /\ UNCHANGED session_folder
              ELSE /\ pc' = "Initializing"
                   /\ session_folder' =
                        IF writes_placeholder(session_folder, imu)
                        THEN [session_folder EXCEPT
                                 !.camera_poses = File(save_camera_poses_from_imu(imu))]
                        ELSE session_folder
    /\ UNCHANGED <<query, result, bucketVars, saved_flows, camera_poses, primary, primary_timestamps,
                   num_frames_to_log, i, rr_log, lookups>>

\* visualize_single_session_in_rerun, lines 298-481: everything before the
\* loops
Initialize ==
    /\ pc = "Initializing"
    /\ LET sorted == IF imu_events # <<>> THEN sort_by_timestamp(imu_events)
                     ELSE imu_events
           choice == IF visualize_no_data(video_frames, depth_frames, sorted)
                     THEN "none"
                     ELSE select_primary(video_frames, depth_frames, sorted)
       IN  /\ imu_events' = sorted
           /\ primary' = choice
           /\ CASE choice = "video" ->
                     /\ num_frames_to_log' = Len(video_frames)
                     /\ primary_timestamps' = video_timestamps
                     /\ camera_poses' = parse_camera_poses(session_folder)
                     /\ pc' = "Synchronizing"
                [] choice = "depth" ->
                     /\ num_frames_to_log' = Len(depth_frames)
                     /\ primary_timestamps' = Range0(Len(depth_frames))
                     /\ camera_poses' = parse_camera_poses(session_folder)
                     /\ pc' = "Synchronizing"
                [] choice = "imu" ->
                     /\ pc' = "Synchronizing"
                     /\ UNCHANGED <<num_frames_to_log, primary_timestamps, camera_poses>>
                [] OTHER ->
                     /\ pc' = "Finished"
                     /\ UNCHANGED <<num_frames_to_log, primary_timestamps, camera_poses>>
    /\ i' = 0
    /\ UNCHANGED <<query, result, bucketVars, saved_flows, session_folder, video_frames, video_timestamps,
                   depth_frames, depth_timestamps, rr_log, lookups>>

\* one iteration of the IMU-only loop, lines 412-461, and the return of
\* line 463 after the last one.  A ValueError of quaternion_multiply, line
\* 427, leaves the function before anything of the event is logged.
ImuStep ==
    /\ pc = "Synchronizing"
    /\ primary = "imu"
    /\ i < Len(imu_events)
    /\ LET event == imu_events[i + 1]
           orientation == ImuOnlyOrientationOf[event.attitude]
       IN  IF orientation.raised
           THEN /\ pc' = "Raised"
                /\ UNCHANGED <<rr_log, i>>
           ELSE /\ rr_log' = Append(rr_log,
                     [kind      |-> "imu_event",
                      i         |-> i,
                      timestamp |-> event.timestamp,
                      imu       |-> event,
                      pose      |-> None,
                      transform |-> IF orientation.emitted
                                    THEN "imu_orientation" ELSE "none",
                      video     |-> -1,
                      depth_queried |-> FALSE,
                      depth     |-> -1])
                /\ i' = i + 1
                /\ pc' = IF i + 1 = Len(imu_events)
                         THEN "Finished" ELSE "Synchronizing"
    /\ UNCHANGED <<query, result, bucketVars, saved_flows, session_folder, imu_events, video_frames,
                   video_timestamps, depth_frames, depth_timestamps, camera_poses,
                   primary, primary_timestamps, num_frames_to_log, lookups>>

\* one iteration of the frame loop, lines 483-763, and the fall-through of
\* lines 765-768 after the last one.  An IndexError leaves the function,
\* and so does a ValueError of quaternion_multiply, line 561, raised after
\* the two lookups and before anything of the step is logged.
FrameStep ==
    /\ pc = "Synchronizing"
    /\ primary \in {"video", "depth"}
    /\ i < num_frames_to_log
    /\ IF i >= Len(primary_timestamps)
       THEN \* primary_timestamps[i] raises IndexError
            /\ pc' = "Raised"
            /\ UNCHANGED <<rr_log, lookups, i>>
       ELSE LET current_time_sec == primary_timestamps[i + 1]
                closest_imu_event == find_closest_imu_event(current_time_sec, imu_events)
                has_poses == camera_poses # None /\ camera_poses.poses # <<>>
                pose == IF has_poses
                        THEN find_closest_pose(current_time_sec, camera_poses.poses)
                        ELSE None
                video == IF video_frames # <<>> /\ i < Len(video_frames)
                         THEN video_frames[i + 1] ELSE -1
                fetch == depth_is_fetched(depth_frames, depth_timestamps, i)
                didx  == IF fetch THEN closest_depth_idx(depth_timestamps, current_time_sec)
                         ELSE -1
                depth_raises == fetch /\ didx >= Len(depth_frames)
                orientation_raises ==
                    /\ camera_transform(pose, closest_imu_event) = "imu_orientation"
                    /\ OrientationRaisesOn[closest_imu_event.attitude]
                step == [kind      |-> "frame",
                         i         |-> i,
                         timestamp |-> current_time_sec,
                         imu       |-> closest_imu_event,
                         pose      |-> pose,
                         transform |-> camera_transform(pose, closest_imu_event),
                         transforms |-> camera_transforms(pose, closest_imu_event),
                         video     |-> video,
                         depth_queried |-> fetch,
                         depth     |-> IF fetch /\ ~depth_raises
                                       THEN depth_frames[didx + 1] ELSE -1]
            IN  /\ lookups' = lookups + 1 + (IF has_poses THEN 1 ELSE 0)
                /\ IF orientation_raises
                   THEN /\ pc' = "Raised"
                        /\ UNCHANGED <<rr_log, i>>
                   ELSE /\ rr_log' = Append(rr_log, step)
                        /\ IF depth_raises
                           THEN \* depth_frames[closest_depth_idx] raises
                                \* IndexError
                                /\ pc' = "Raised"
                                /\ UNCHANGED i
                           ELSE /\ i' = i + 1
                                /\ pc' = IF i + 1 = num_frames_to_log
                                         THEN "Finished" ELSE "Synchronizing"
    /\ UNCHANGED <<query, result, bucketVars, saved_flows, session_folder, imu_events, video_frames,
                   video_timestamps, depth_frames, depth_timestamps, camera_poses,
                   primary, primary_timestamps, num_frames_to_log>>

Next == Main \/ Initialize \/ ImuStep \/ FrameStep

Spec == Init /\ [][Next]_vars

\* the interpreter runs the session to its end: a step that can be taken is taken
FairSpec == Spec /\ WF_vars(Next)

----------------------------------------------------------------------------
(* Properties of the nearest-timestamp lookup (SpecNearest).               *)

Looked == result # Pending /\ result # Idle

Elements(S) == {S[k] : k \in 1..Len(S)}

Minimizes(e, t, S) ==
    /\ e \in Elements(S)
    /\ \A s \in Elements(S) : Abs(e.timestamp - t) <= Abs(s.timestamp - t)

\* C1: on a non-empty list sorted by timestamp, find_closest_imu_event and
\* find_closest_pose each return an element of the list at minimum distance
\* from the query, and both choose the same index.
C1_NearestMinimizes ==
    (Looked /\ query.S # <<>>) =>
        /\ Minimizes(result.imu, query.t, query.S)
        /\ Minimizes(result.pose, query.t, query.S)
        /\ result.imu_idx = result.pose_idx

\* a query strictly inside a list of three distinct timestamps that is
\* answered with the middle sample
C1_Witness ==
    /\ Looked
    /\ Len(query.S) = 3
    /\ query.S[1].timestamp < query.S[2].timestamp
    /\ query.S[2].timestamp < query.S[3].timestamp
    /\ query.t # query.S[2].timestamp
    /\ result.imu_idx = 1
    /\ result.pose = query.S[2]

\* adjacent samples a < b with the query exactly half way
TiedAt(k) ==
    /\ k \in 1..(Len(query.S) - 1)
    /\ query.S[k].timestamp < query.S[k + 1].timestamp
    /\ query.t - query.S[k].timestamp = query.S[k + 1].timestamp - query.t

\* C2: a query equidistant from two adjacent timestamps a < b is answered
\* with the later sample, the one stamped b, by both lookups.
C2_TieGoesLater ==
    Looked =>
        \A k \in 1..(Len(query.S) - 1) :
            TiedAt(k) => /\ result.imu = query.S[k + 1]
                         /\ result.pose = query.S[k + 1]

C2_Witness ==
    /\ Looked
    /\ \E k \in 1..(Len(query.S) - 1) :
          TiedAt(k) /\ result.imu = query.S[k + 1] /\ result.pose = query.S[k + 1]

\* C3: a query at or before the first timestamp is answered with the first
\* element, a query after the last timestamp with the last element, and an
\* empty list with None.
C3_ClampsAndNone ==
    Looked =>
        LET S == query.S
            t == query.t
        IN  /\ S = <<>> => (result.imu = None /\ result.pose = None)
            /\ (S # <<>> /\ t <= S[1].timestamp) =>
                  (result.imu = S[1] /\ result.pose = S[1])
            /\ (S # <<>> /\ t > S[Len(S)].timestamp) =>
                  (result.imu = S[Len(S)] /\ result.pose = S[Len(S)])

\* a query before a list whose first and last timestamps differ, answered
\* with the first element
C3_Witness ==
    /\ Looked
    /\ Len(query.S) >= 2
    /\ query.S[1].timestamp < query.S[Len(query.S)].timestamp
    /\ query.t < query.S[1].timestamp
    /\ result.imu = query.S[1]
    /\ result.pose = query.S[1]

----------------------------------------------------------------------------
(* Properties of the synchronizer (Spec).                                  *)

Entered == pc \in {"Synchronizing", "Finished", "Raised"}

FramePrimary == primary \in {"video", "depth"}

\* C4: the primary stream is video whenever video frames are present,
\* otherwise depth whenever depth frames are present, otherwise IMU, and
\* there is no primary only when all three are absent.
C4_PrimaryByPriority ==
    Entered =>
        /\ video_frames # <<>> => primary = "video"
        /\ (video_frames = <<>> /\ depth_frames # <<>>) => primary = "depth"
        /\ (video_frames = <<>> /\ depth_frames = <<>> /\ imu_events # <<>>) =>
              primary = "imu"
        /\ primary = "none" <=>
              (video_frames = <<>> /\ depth_frames = <<>> /\ imu_events = <<>>)

\* video chosen although depth frames and IMU events are present too
C4_Witness ==
    /\ pc = "Synchronizing"
    /\ primary = "video"
    /\ depth_frames # <<>>
    /\ imu_events # <<>>

\* C5: with a video or depth primary of n samples every step i < n has a
\* primary timestamp, the steps are logged in index order, step i is
\* stamped with the i-th primary timestamp and carries the results of the
\* IMU and pose lookups for it, and a finished session has logged n steps.
C5_EveryStepStamped ==
    (Entered /\ FramePrimary) =>
        /\ num_frames_to_log <= Len(primary_timestamps)
        /\ pc = "Finished" => Len(rr_log) = num_frames_to_log
        /\ \A k \in 1..Len(rr_log) :
              /\ rr_log[k].i = k - 1
              /\ rr_log[k].timestamp = primary_timestamps[k]
              /\ rr_log[k].imu = find_closest_imu_event(primary_timestamps[k], imu_events)
              /\ rr_log[k].pose =
                    IF camera_poses # None /\ camera_poses.poses # <<>>
                    THEN find_closest_pose(primary_timestamps[k], camera_poses.poses)
                    ELSE None

\* the decimation interval the specification describes, for a target depth
\* rate of one frame every `period` ticks: max(1, round(fps / target)) with
\* fps = (count - 1) / (t_last - t_first) and Python's round (half to even)
RoundHalfEven(num, den) ==
    LET q == num \div den
        r == num % den
    IN  IF 2 * r < den THEN q
        ELSE IF 2 * r > den THEN q + 1
        ELSE IF q % 2 = 0 THEN q ELSE q + 1

ClaimedInterval(ts, period) ==
    IF Len(ts) < 2 \/ ts[Len(ts)] - ts[1] <= 0 THEN 1
    ELSE LET k == RoundHalfEven((Len(ts) - 1) * period, ts[Len(ts)] - ts[1])
         IN  IF k < 1 THEN 1 ELSE k

TargetDepthPeriods == {1, 2, 3}

\* C6: with a video primary the depth stream is fetched only on
\* steps i with i mod k = 0, k the decimation interval.
C6_DepthOnlyEveryKth ==
    (Entered /\ primary = "video") =>
        \A period \in TargetDepthPeriods : \A k \in 1..Len(rr_log) :
            rr_log[k].depth_queried =>
                rr_log[k].i % ClaimedInterval(primary_timestamps, period) = 0

\* steps a < b of the log that both fetch depth, with no fetch in between
SuccessiveFetches(a, b) ==
    /\ a \in 1..Len(rr_log)
    /\ b \in 1..Len(rr_log)
    /\ a < b
    /\ rr_log[a].depth_queried
    /\ rr_log[b].depth_queried
    /\ \A c \in (a + 1)..(b - 1) : ~rr_log[c].depth_queried

\* C7: the distance between successive depth fetches is the
\* interval max(1, round(((count-1)/(t_last-t_first)) / target_depth_fps))
\* of the primary timeline.
C7_IntervalIsRounded ==
    (Entered /\ FramePrimary) =>
        \A period \in TargetDepthPeriods :
            \A a \in 1..Len(rr_log) : \A b \in 1..Len(rr_log) :
                SuccessiveFetches(a, b) =>
                    rr_log[b].i - rr_log[a].i = ClaimedInterval(primary_timestamps, period)

\* position of a state in NotStarted -> Initializing -> Synchronizing -> Finished
StateRank(state) ==
    CASE state = "NotStarted" -> 0
      [] state = "Initializing" -> 1
      [] state = "Synchronizing" -> 2
      [] state = "Finished" -> 3
      [] OTHER -> 4

\* every angle of every IMU event of the session's files is finite
FiniteInputs ==
    \A k \in 1..Len(session_folder.imu) :
        \A angle \in {session_folder.imu[k].attitude.roll,
                      session_folder.imu[k].attitude.pitch,
                      session_folder.imu[k].attitude.yaw} :
            IsFinite(angle.cos_half) /\ IsFinite(angle.sin_half)

\* C8: a session moves through NotStarted, Initializing, Synchronizing,
\* Finished in that order, never backwards, and the processing of a
\* session with finite inputs eventually reaches Finished.
C8_OrderedAndFinishes ==
    /\ [][StateRank(pc) <= StateRank(pc')]_vars
    /\ (pc = "NotStarted" /\ FiniteInputs) ~> (pc = "Finished")

\* the session's files hold IMU events and neither video nor loadable depth
ImuOnlySession ==
    /\ session_folder.imu # <<>>
    /\ session_folder.video = 0
    /\ \A k \in 1..Len(session_folder.depth) : ~session_folder.depth[k].ok

\* C9: an IMU-only session logs one step per IMU sample, in ascending
\* timestamp order, each stamped with its own sample's timestamp, and
\* finishes (it does not raise) without a lookup, without loading poses and
\* without a frame step.
C9_ImuOnlyOnePerSample ==
    (Entered /\ ImuOnlySession) =>
        /\ primary = "imu"
        /\ pc # "Raised"
        /\ lookups = 0
        /\ camera_poses = Unloaded
        /\ \A k \in 1..Len(rr_log) :
              /\ rr_log[k].kind = "imu_event"
              /\ rr_log[k].i = k - 1
              /\ rr_log[k].imu \in Elements(session_folder.imu)
              /\ rr_log[k].timestamp = rr_log[k].imu.timestamp
        /\ \A k \in 1..(Len(rr_log) - 1) :
              /\ rr_log[k].timestamp <= rr_log[k + 1].timestamp
              /\ rr_log[k].imu # rr_log[k + 1].imu
        /\ pc = "Finished" =>
              /\ Len(rr_log) = Len(session_folder.imu)
              /\ {rr_log[k].imu : k \in 1..Len(rr_log)} = Elements(session_folder.imu)

\* the session's files hold no IMU event, no video frame and no loadable
\* depth frame
EmptySession ==
    /\ session_folder.imu = <<>>
    /\ session_folder.video = 0
    /\ \A k \in 1..Len(session_folder.depth) : ~session_folder.depth[k].ok

\* C10: a session without any stream is skipped: every step of its
\* processing leaves it not started or finished (never raised), logs no
\* step and leaves the session's files, camera_poses.json included, as
\* they were.
C10_EmptySessionSkipped ==
    [][EmptySession =>
          /\ pc' \in {"NotStarted", "Finished"}
          /\ rr_log' = <<>>
          /\ session_folder' = session_folder]_vars

\* an empty session without camera_poses.json after main returned
C10_Witness ==
    /\ EmptySession
    /\ ~session_folder.camera_poses.exists
    /\ session_folder.depth # <<>>
    /\ pc = "Finished"

----------------------------------------------------------------------------
(* compute_optical_flow.py: unprojection, rigid transforms, projection and *)
(* the flow field.  A grid is a sequence of rows; pixel (px, py) is        *)
(* grid[py + 1][px + 1].                                                   *)

Height(grid) == Len(grid)

Width(grid) == Len(grid[1])

\* depth_to_points with the meshgrid indices exchanged
depth_to_points_transposed(depth, intr) ==
    [r \in 1..Height(depth) |-> [c \in 1..Width(depth) |->
        LET z == depth[r][c]
        IN  <<FDiv(FMul(FSub(Float(r - 1), intr.cx), z), intr.fx),
              FDiv(FMul(FSub(Float(c - 1), intr.cy), z), intr.fy),
              z>>]]

\* depth_to_points: grid_x is the column index, grid_y the row index
depth_to_points(depth, intr) ==
    [r \in 1..Height(depth) |-> [c \in 1..Width(depth) |->
        LET z == depth[r][c]
        IN  <<FDiv(FMul(FSub(Float(c - 1), intr.cx), z), intr.fx),
              FDiv(FMul(FSub(Float(r - 1), intr.cy), z), intr.fy),
              z>>]]

\* pose @ [x, y, z, 1], first three components
transform_point(p, pose) ==
    [k \in 1..3 |->
        FAdd(FAdd(FAdd(FMul(pose[k][1], p[1]), FMul(pose[k][2], p[2])),
                  FMul(pose[k][3], p[3])),
             FMul(pose[k][4], Float(1)))]

transform_points(points, pose) ==
    [r \in 1..Height(points) |-> [c \in 1..Width(points) |->
        transform_point(points[r][c], pose)]]

\* project_points without the principal point
project_points_no_principal(points, intr) ==
    [r \in 1..Height(points) |-> [c \in 1..Width(points) |->
        LET p == points[r][c]
        IN  <<FDiv(FMul(intr.fx, p[1]), p[3]),
              FDiv(FMul(intr.fy, p[2]), p[3])>>]]

project_points(points, intr) ==
    [r \in 1..Height(points) |-> [c \in 1..Width(points) |->
        LET p == points[r][c]
        IN  <<FAdd(FDiv(FMul(intr.fx, p[1]), p[3]), intr.cx),
              FAdd(FDiv(FMul(intr.fy, p[2]), p[3]), intr.cy)>>]]

\* np.linalg.inv: the inverse by cofactors; a singular matrix raises
Minor(M, r, c) ==
    [a \in 1..(Len(M) - 1) |-> [b \in 1..(Len(M) - 1) |->
        M[IF a < r THEN a ELSE a + 1][IF b < c THEN b ELSE b + 1]]]

RECURSIVE Det(_)
RECURSIVE DetAlongRow(_, _)
DetAlongRow(M, c) ==
    IF c = 0 THEN Float(0)
    ELSE FAdd(DetAlongRow(M, c - 1),
              FMul(Float(IF c % 2 = 1 THEN 1 ELSE -1),
                   FMul(M[1][c], Det(Minor(M, 1, c)))))

Det(M) == IF Len(M) = 1 THEN M[1][1] ELSE DetAlongRow(M, Len(M))

linalg_inv(M) ==
    LET det == Det(M)
    IN  [r \in 1..Len(M) |-> [c \in 1..Len(M) |->
            FDiv(FMul(Float(IF (r + c) % 2 = 0 THEN 1 ELSE -1), Det(Minor(M, c, r))),
                 det)]]

\* compute_flow, line 63, ignoring the camera-2 depth
valid_mask_depth_only(depth1, z2) == FGt0(depth1)

\* compute_flow, line 63
valid_mask(depth1, z2) == FGt0(depth1) /\ FGt0(z2)

\* compute_flow with the two poses in each other's place: to the world by
\* pose2, into the camera by the inverse of pose1
compute_flow_poses_reversed(depth1, depth2, pose1, pose2, intr) ==
    IF Det(pose1) = Float(0) THEN [raised |-> TRUE, flow |-> <<>>]
    ELSE
    LET pts1     == depth_to_points(depth1, intr)
        world    == transform_points(pts1, pose2)
        cam2_inv == linalg_inv(pose1)
        pts2_cam == transform_points(world, cam2_inv)
        proj     == project_points(pts2_cam, intr)
    IN  [raised |-> FALSE,
         flow   |-> [r \in 1..Height(depth1) |-> [c \in 1..Width(depth1) |->
                        IF valid_mask(depth1[r][c], pts2_cam[r][c][3])
                        THEN <<FSub(proj[r][c][1], Float(c - 1)),
                               FSub(proj[r][c][2], Float(r - 1))>>
                        ELSE <<NaN, NaN>>]]]

compute_flow(depth1, depth2, pose1, pose2, intr) ==
    IF Det(pose2) = Float(0) THEN [raised |-> TRUE, flow |-> <<>>]
    ELSE
    LET pts1     == depth_to_points(depth1, intr)
        world    == transform_points(pts1, pose1)
        cam2_inv == linalg_inv(pose2)
        pts2_cam == transform_points(world, cam2_inv)
        proj     == project_points(pts2_cam, intr)
    IN  [raised |-> FALSE,
         flow   |-> [r \in 1..Height(depth1) |-> [c \in 1..Width(depth1) |->
                        IF valid_mask(depth1[r][c], pts2_cam[r][c][3])
                        THEN <<FSub(proj[r][c][1], Float(c - 1)),
                               FSub(proj[r][c][2], Float(r - 1))>>
                        ELSE <<NaN, NaN>>]]]
----------------------------------------------------------------------------
(* Inputs of the geometry calls: depth grids of at most MaxH x MaxW pixels *)
(* with at most one pixel of depth <= 0 (the first or the last), pinhole   *)
(* intrinsics, and rigid world-from-camera poses.                          *)

DepthValues == {1, 2}

InvalidDepthValues == {0, -1}

DepthGrids ==
    {[r \in 1..h |-> [c \in 1..w |->
         Float(IF \/ (hole = "first" /\ <<r, c>> = <<1, 1>>)
                  \/ (hole = "last" /\ <<r, c>> = <<h, w>>)
               THEN bad ELSE z)]] :
        h \in 1..MaxH, w \in 1..MaxW, z \in DepthValues,
        hole \in {"none", "first", "last"}, bad \in InvalidDepthValues}

Intr(fx, fy, cx, cy) ==
    [fx |-> Float(fx), fy |-> Float(fy), cx |-> Float(cx), cy |-> Float(cy)]

Intrinsics == {Intr(1, 1, 0, 0), Intr(2, 1, 1, 1)}

IdentityRotation == <<<<1, 0, 0>>, <<0, 1, 0>>, <<0, 0, 1>>>>

Rotations ==
    {IdentityRotation,
     <<<<0, -1, 0>>, <<1, 0, 0>>, <<0, 0, 1>>>>,      \* a quarter turn about Z
     <<<<-1, 0, 0>>, <<0, 1, 0>>, <<0, 0, -1>>>>}     \* a half turn about Y

Translations == {<<0, 0, 0>>, <<1, 0, 1>>}

\* the 4x4 matrix [R t; 0 0 0 1]
RigidPose(R, t) ==
    [r \in 1..4 |-> [c \in 1..4 |->
        Float(IF r = 4 THEN (IF c = 4 THEN 1 ELSE 0)
              ELSE IF c = 4 THEN t[r] ELSE R[r][c])]]

RigidPoses == {RigidPose(R, t) : R \in Rotations, t \in Translations}

DepthToPointsCalls ==
    {[fn |-> "depth_to_points", depth |-> d, intr |-> k] :
        d \in DepthGrids, k \in Intrinsics}

\* a second depth frame in which every pixel lies farther by one
later_depth_frame(d) ==
    [r \in 1..Height(d) |-> [c \in 1..Width(d) |-> FAdd(d[r][c], Float(1))]]

\* the second depth frame equals the first, or, between translation-only
\* poses, is a later one
ComputeFlowCalls ==
    {[fn |-> "compute_flow", depth1 |-> d, depth2 |-> d, pose1 |-> p1,
      pose2 |-> p2, intr |-> k] :
        d \in DepthGrids, p1 \in RigidPoses, p2 \in RigidPoses, k \in Intrinsics}
    \cup
    {[fn |-> "compute_flow", depth1 |-> d, depth2 |-> later_depth_frame(d),
      pose1 |-> RigidPose(IdentityRotation, t1),
      pose2 |-> RigidPose(IdentityRotation, t2), intr |-> k] :
        d \in DepthGrids, t1 \in Translations, t2 \in Translations, k \in Intrinsics}
----------------------------------------------------------------------------
(* parse_imu_bin (replay_local_data.py, lines 40-78).  A line of the log   *)
(* is given by the number of its comma-separated parts (0 for a blank      *)
(* line) and by whether float() accepts every part; a line that parses     *)
(* carries its position in the file as timestamp.                          *)

FieldsWithGravity == 13

FieldsWithoutGravity == 10

ImuLine(parts, numeric) == [parts |-> parts, numeric |-> numeric]

is_blank(line) == line.parts = 0

\* the lines parse_imu_bin iterates over: f.readline() consumed the first
lines_after_readline(lines) == 2..Len(lines)

\* the line yields an event
yields_event(line) ==
    /\ ~is_blank(line)
    /\ line.parts \in {FieldsWithGravity, FieldsWithoutGravity}
    /\ line.numeric

\* the line makes parse_imu_bin print a message
yields_warning(line) == ~is_blank(line) /\ ~yields_event(line)

RECURSIVE ParsedUpTo(_, _, _)
ParsedUpTo(lines, read, n) ==
    IF n = 0 THEN <<>>
    ELSE IF n \in read /\ yields_event(lines[n])
         THEN Append(ParsedUpTo(lines, read, n - 1),
                     [timestamp |-> n - 1, id |-> n - 1,
                      gravity |-> lines[n].parts = FieldsWithGravity])
         ELSE ParsedUpTo(lines, read, n - 1)

parse_imu_bin(lines) ==
    LET read == lines_after_readline(lines)
    IN  [events   |-> ParsedUpTo(lines, read, Len(lines)),
         warnings |-> Cardinality({n \in read : yields_warning(lines[n])}),
         raised   |-> FALSE]

ImuLines ==
    {ImuLine(0, FALSE)} \cup
    {ImuLine(parts, numeric) :
        parts \in {FieldsWithGravity, FieldsWithoutGravity, FieldsWithoutGravity - 1},
        numeric \in BOOLEAN}

ImuLogs == SeqsUpTo(ImuLines, MaxLines)

----------------------------------------------------------------------------
(* The depth frame handed to the sink, replay_local_data.py lines 712-740: *)
(* the orientation check against the first video frame, the quarter turn,  *)
(* and cv2.resize with INTER_LINEAR.  A shape is <<height, width>>.        *)

\* longest side of a depth frame in the resampling calls
MaxSide == 3

shape(grid) == <<Height(grid), Width(grid)>>

\* np.rot90, line 723: a quarter turn counterclockwise
rot90(grid) ==
    [r \in 1..Width(grid) |-> [c \in 1..Height(grid) |->
        grid[c][Width(grid) - r + 1]]]

\* cv2.resize, INTER_LINEAR: the two source indices (0-based) and the weight
\* of the second that destination index x (0-based) reads along one axis:
\* the source coordinate is (x + 0.5) * src / dst - 0.5, clamped to the axis
linear_tap(x, src, dst) ==
    LET num == (2 * x + 1) * src - dst
        den == 2 * dst
    IN  IF num < 0 THEN [lo |-> 0, hi |-> 0, frac |-> Float(0)]
        ELSE IF num \div den >= src - 1
             THEN [lo |-> src - 1, hi |-> src - 1, frac |-> Float(0)]
        ELSE [lo |-> num \div den, hi |-> (num \div den) + 1,
              frac |-> Rat(num % den, den)]

\* a * (1 - frac) + b * frac
lerp(a, b, frac) == FAdd(FMul(a, FSub(Float(1), frac)), FMul(b, frac))

\* cv2.resize(grid, (width, height), interpolation=cv2.INTER_LINEAR)
resize_linear(grid, dsize) ==
    [r \in 1..dsize[2] |-> [c \in 1..dsize[1] |->
        LET ty == linear_tap(r - 1, Height(grid), dsize[2])
            tx == linear_tap(c - 1, Width(grid), dsize[1])
        IN  lerp(lerp(grid[ty.lo + 1][tx.lo + 1], grid[ty.lo + 1][tx.hi + 1], tx.frac),
                 lerp(grid[ty.hi + 1][tx.lo + 1], grid[ty.hi + 1][tx.hi + 1], tx.frac),
                 ty.frac)]]

\* line 716: rgb_shape == depth_shape[::-1]
depth_needs_rot90(depth_shape, rgb_shape) ==
    rgb_shape = <<depth_shape[2], depth_shape[1]>>

\* lines 712-740, in a session with video frames: what rr.DepthImage gets
\* for the depth frame on which the orientation is checked
depth_for_sink(depth, rgb_shape) ==
    LET oriented == IF depth_needs_rot90(shape(depth), rgb_shape)
                    THEN rot90(depth) ELSE depth
    IN  IF shape(oriented) # rgb_shape
        THEN resize_linear(oriented, <<rgb_shape[2], rgb_shape[1]>>)
        ELSE oriented

\* depth frames of one value with at most one pixel of another value
ResizeGrids ==
    {[r \in 1..h |-> [c \in 1..w |->
         Float(IF <<r, c>> = peak THEN other ELSE 1)]] :
        h \in 1..MaxSide, w \in 1..MaxSide,
        peak \in (1..MaxSide) \X (1..MaxSide), other \in {0, 1, 2}}

RgbShapes == (1..(MaxSide + 1)) \X (1..(MaxSide + 1))

DepthForSinkCalls ==
    {[fn |-> "depth_for_sink", depth |-> d, rgb_shape |-> s] :
        d \in ResizeGrids, s \in RgbShapes}
----------------------------------------------------------------------------
(* Calls of the pure operations: each is applied once to every input of    *)
(* its input set.                                                          *)

Angles ==
    {Angle(Float(1), Float(0)),       \* 0
     Angle(Float(0), Float(1)),       \* a half turn
     Angle(Rat(4, 5), Rat(3, 5)),     \* 2 atan(3/4)
     Angle(NaN, NaN)}                 \* a not-a-number or infinite angle

Attitudes == [roll : Angles, pitch : Angles, yaw : Angles]

LogTranslations ==
    {<<Float(0), Float(0), Float(0)>>, <<Float(1), Float(0), Float(2)>>,
     <<NaN, Float(0), Float(0)>>}

UnitQuaternions ==
    {IdentityQuaternion,
     Quat(Float(1), Float(0), Float(0), Float(0)),
     Quat(Float(0), Float(0), Rat(3, 5), Rat(4, 5)),
     Quat(Rat(1, 2), Rat(1, 2), Rat(1, 2), Rat(1, 2)),
     Quat(Rat(-1, 2), Rat(1, 2), Rat(-1, 2), Rat(1, 2))}

Vectors ==
    {<<Float(x), Float(y), Float(z)>> :
        <<x, y, z>> \in {<<0, 0, 0>>, <<1, 0, 0>>, <<0, 1, 0>>, <<2, 0, 0>>,
                         <<0, 3, 4>>, <<0, 0, -2>>, <<2, 1, 2>>}}

OrientationCalls ==
    {[fn |-> "imu_only_camera_orientation", attitude |-> a] : a \in Attitudes}
    \cup
    {[fn |-> "frame_loop_camera_orientation", attitude |-> a, translation |-> t] :
        a \in Attitudes, t \in LogTranslations}

RotateCalls ==
    {[fn |-> "rotate_vector_by_quaternion", v |-> v, q |-> q] :
        v \in Vectors, q \in UnitQuaternions}

ParseCalls == {[fn |-> "parse_imu_bin", lines |-> l] : l \in ImuLogs}

LoadDepthCalls == {[fn |-> "load_depth_frames", files |-> d] : d \in DepthDirsStamped}

\* the frame loop's depth lookup on every sorted list of depth timestamps
ClosestDepthCalls ==
    {[fn |-> "closest_depth_idx", timestamps |-> ts, t |-> t] :
        ts \in SortedTimestampLists \ {<<>>}, t \in (-1)..(MaxTime + 1)}

InitCalls ==
    /\ query \in DepthToPointsCalls \cup ComputeFlowCalls \cup OrientationCalls
                   \cup RotateCalls \cup ParseCalls \cup LoadDepthCalls
                   \cup DepthForSinkCalls \cup ClosestDepthCalls
    /\ result = Pending
    /\ SessionIdle
    /\ BucketIdle

Returns(value) ==
    /\ result = Pending
    /\ result' = [returned |-> value]
    /\ UNCHANGED <<query, sessionVars>>

CallDepthToPoints ==
    /\ query.fn = "depth_to_points"
    /\ Returns(depth_to_points(query.depth, query.intr))

CallComputeFlow ==
    /\ query.fn = "compute_flow"
    /\ Returns(compute_flow(query.depth1, query.depth2, query.pose1, query.pose2,
                            query.intr))

CallImuOnlyOrientation ==
    /\ query.fn = "imu_only_camera_orientation"
    /\ Returns(imu_only_camera_orientation(query.attitude))

CallFrameLoopOrientation ==
    /\ query.fn = "frame_loop_camera_orientation"
    /\ Returns(frame_loop_camera_orientation(query.attitude, query.translation))

CallRotateVector ==
    /\ query.fn = "rotate_vector_by_quaternion"
    /\ Returns(rotate_vector_by_quaternion(query.v, query.q))

CallParseImuBin ==
    /\ query.fn = "parse_imu_bin"
    /\ Returns(parse_imu_bin(query.lines))

CallLoadDepthFrames ==
    /\ query.fn = "load_depth_frames"
    /\ Returns(load_depth_frames(query.files))

CallDepthForSink ==
    /\ query.fn = "depth_for_sink"
    /\ Returns(depth_for_sink(query.depth, query.rgb_shape))

CallClosestDepthIdx ==
    /\ query.fn = "closest_depth_idx"
    /\ Returns(closest_depth_idx(query.timestamps, query.t))

NextCalls ==
    \/ CallDepthToPoints
    \/ CallComputeFlow
    \/ CallImuOnlyOrientation
    \/ CallFrameLoopOrientation
    \/ CallRotateVector
    \/ CallParseImuBin
    \/ CallLoadDepthFrames
    \/ CallDepthForSink
    \/ CallClosestDepthIdx

SpecCalls == InitCalls /\ [][NextCalls]_vars

Returned == result # Pending /\ result # Idle

----------------------------------------------------------------------------
(* compute_optical_flow.py main(), lines 69-97: the poses are read from    *)
(* camera_poses.json, the depth frames are loaded, and one flow field is   *)
(* computed and saved for each pair of successive frames.                  *)

\* most depth files of a session handed to the flow driver
MaxFlowDepth == 3
\* most entries of camera_poses.json of a session handed to the flow driver
MaxFlowPose == 2

\* depth/*.d32 in file-name order, the file at position k stamped k - 1
FlowDepthDirs ==
    {[k \in 1..n |-> [timestamp |-> k - 1, ok |-> d[k]]] :
        n \in 0..MaxFlowDepth, d \in [1..MaxFlowDepth -> BOOLEAN]}

\* camera_poses.json: absent, or n poses from an offset, all of one kind
FlowPoseFiles ==
    {NoFile} \cup
    {File([k \in 1..n |-> Pose(o + (k - 1), k - 1, m)]) :
        n \in 0..MaxFlowPose, o \in ClockOffsets, m \in PoseMatrices}

\* the flow driver reads meta.json, camera_poses.json and depth/ only
FlowFolders ==
    [imu                   : {<<>>},
     video                 : {0},
     video_timestamps_json : {NoFile},
     depth                 : FlowDepthDirs,
     camera_poses          : FlowPoseFiles,
     meta_camera_poses     : MetaPoses]

InitFlow ==
    /\ query = Idle
    /\ result = Idle
    /\ BucketIdle
    /\ session_folder \in FlowFolders
    /\ imu_events = <<>>
    /\ video_frames = <<>>
    /\ video_timestamps = <<>>
    /\ depth_frames = <<>>
    /\ depth_timestamps = <<>>
    /\ camera_poses = Unloaded
    /\ primary = "none"
    /\ primary_timestamps = <<>>
    /\ num_frames_to_log = 0
    /\ i = 0
    /\ rr_log = <<>>
    /\ lookups = 0
    /\ saved_flows = <<>>
    /\ pc = "NotStarted"

\* load_camera_poses, lines 23-26: open() raises when the file is missing
load_camera_poses_raises(folder) == ~folder.camera_poses.exists

load_camera_poses(folder) == PoseList(folder.camera_poses.data)

\* lines 80-86
FlowLoad ==
    /\ pc = "NotStarted"
    /\ IF load_camera_poses_raises(session_folder)
       THEN /\ pc' = "Raised"
            /\ UNCHANGED <<camera_poses, depth_frames, depth_timestamps>>
       ELSE LET depth == load_depth_frames(session_folder.depth)
            IN  /\ camera_poses' = load_camera_poses(session_folder)
                /\ depth_frames' = depth.frames
                /\ depth_timestamps' = depth.timestamps
                /\ pc' = IF Len(depth.frames) - 1 <= 0 THEN "Finished" ELSE "Computing"
    /\ i' = 0
    /\ UNCHANGED <<query, result, bucketVars, session_folder, imu_events, video_frames,
                   video_timestamps, primary, primary_timestamps,
                   num_frames_to_log, rr_log, lookups, saved_flows>>

\* find_closest_pose(t, poses)['matrix'], lines 92-93: subscripting None
\* raises TypeError
pose_matrix_raises(pose) == pose = None

\* one iteration of the loop of lines 87-97
FlowStep ==
    /\ pc = "Computing"
    /\ i < Len(depth_frames) - 1
    /\ LET d1 == depth_frames[i + 1]
           d2 == depth_frames[i + 2]
           t1 == depth_timestamps[i + 1]
           t2 == depth_timestamps[i + 2]
           p1 == find_closest_pose(t1, camera_poses.poses)
           p2 == find_closest_pose(t2, camera_poses.poses)
       IN  IF pose_matrix_raises(p1) \/ pose_matrix_raises(p2)
           THEN \* line 92 or line 93 raises TypeError: the lookup whose
                \* result is subscripted has been made
                /\ pc' = "Raised"
                /\ lookups' = lookups + (IF pose_matrix_raises(p1) THEN 1 ELSE 2)
                /\ UNCHANGED <<i, saved_flows>>
           ELSE /\ saved_flows' = Append(saved_flows,
                      [name |-> t1, depth1 |-> d1, depth2 |-> d2,
                       pose1 |-> p1, pose2 |-> p2])
                /\ lookups' = lookups + 2
                /\ i' = i + 1
                /\ pc' = IF i + 1 = Len(depth_frames) - 1
                         THEN "Finished" ELSE "Computing"
    /\ UNCHANGED <<query, result, bucketVars, session_folder, imu_events, video_frames,
                   video_timestamps, depth_frames, depth_timestamps, camera_poses,
                   primary, primary_timestamps, num_frames_to_log, rr_log>>

NextFlow == FlowLoad \/ FlowStep

SpecFlow == InitFlow /\ [][NextFlow]_vars
----------------------------------------------------------------------------
(* Properties of the flow driver (SpecFlow).                               *)

\* the session's files hold at least one stream
AnyStreamPresent ==
    \/ ~EmptySession
    \/ (session_folder.camera_poses.exists /\ session_folder.camera_poses.data # <<>>)
    \/ session_folder.meta_camera_poses.exists

\* C11: whatever non-empty combination of video, depth, IMU and pose
\* streams the session holds, its processing never raises; in particular
\* the flow computation does not fail on an absent or empty pose list.
C11_MissingStreamTolerated == AnyStreamPresent => pc # "Raised"

----------------------------------------------------------------------------
(* Properties of the geometry calls (SpecCalls).                           *)

Pixels(grid) == (1..Height(grid)) \X (1..Width(grid))

FlowReturned == Returned /\ query.fn = "compute_flow" /\ ~result.returned.raised

\* the point of pixel (r, c) in the frame of camera 1
CameraOnePoint(r, c) ==
    LET z == query.depth1[r][c]
    IN  <<FDiv(FMul(FSub(Float(c - 1), query.intr.cx), z), query.intr.fx),
          FDiv(FMul(FSub(Float(r - 1), query.intr.cy), z), query.intr.fy),
          z>>

\* the Z coordinate of that point in the frame of camera 2, for rigid
\* poses [R1 t1] and [R2 t2]: the third component of R2^T (R1 p + t1 - t2)
CameraTwoZ(r, c) ==
    LET p == CameraOnePoint(r, c)
        world(k) == FAdd(FAdd(FAdd(FMul(query.pose1[k][1], p[1]),
                                   FMul(query.pose1[k][2], p[2])),
                              FMul(query.pose1[k][3], p[3])),
                         query.pose1[k][4])
        rel(k) == FSub(world(k), query.pose2[k][4])
    IN  FAdd(FAdd(FMul(query.pose2[1][3], rel(1)), FMul(query.pose2[2][3], rel(2))),
             FMul(query.pose2[3][3], rel(3)))

\* C12: a pixel of the returned flow field is not-a-number in both
\* components exactly when its source depth is <= 0 or its camera-2 Z is
\* <= 0; every other pixel holds a finite displacement.
C12_NaNExactlyWhereInvalid ==
    FlowReturned =>
        \A px \in Pixels(query.depth1) :
            LET f == result.returned.flow[px[1]][px[2]]
                invalid == \/ ~FGt0(query.depth1[px[1]][px[2]])
                           \/ ~FGt0(CameraTwoZ(px[1], px[2]))
            IN  IF invalid THEN IsNaN(f[1]) /\ IsNaN(f[2])
                ELSE IsFinite(f[1]) /\ IsFinite(f[2])

\* a pixel of positive depth that lies at Z = 0 of camera 2 is masked, next
\* to a pixel masked for its depth
C12_Witness ==
    /\ FlowReturned
    /\ \E px \in Pixels(query.depth1) :
          /\ FGt0(query.depth1[px[1]][px[2]])
          /\ CameraTwoZ(px[1], px[2]) = Float(0)
          /\ IsNaN(result.returned.flow[px[1]][px[2]][1])
    /\ \E px \in Pixels(query.depth1) : ~FGt0(query.depth1[px[1]][px[2]])

\* C13: with pose1 = pose2 the flow is (0, 0) at every pixel of depth > 0.
C13_SamePoseZeroFlow ==
    (FlowReturned /\ query.pose1 = query.pose2) =>
        \A px \in Pixels(query.depth1) :
            FGt0(query.depth1[px[1]][px[2]]) =>
                result.returned.flow[px[1]][px[2]] = <<Float(0), Float(0)>>

\* the same rotated and translated pose twice, an off-centre principal
\* point, and a pixel away from the origin with zero flow
C13_Witness ==
    /\ FlowReturned
    /\ query.pose1 = query.pose2
    /\ query.pose1 # RigidPose(IdentityRotation, <<0, 0, 0>>)
    /\ query.pose1[1][4] # Float(0)
    /\ query.intr.cx # Float(0)
    /\ Height(query.depth1) = 2 /\ Width(query.depth1) = 2
    /\ FGt0(query.depth1[2][2])
    /\ result.returned.flow[2][2] = <<Float(0), Float(0)>>

PointsReturned == Returned /\ query.fn = "depth_to_points"

\* C14: depth_to_points gives every pixel (px, py) of the grid, whatever
\* its depth z, the point ((px - cx) z / fx, (py - cy) z / fy, z).
C14_UnprojectsEveryPixel ==
    PointsReturned =>
        /\ Height(result.returned) = Height(query.depth)
        /\ \A r \in 1..Height(query.depth) : Len(result.returned[r]) = Width(query.depth)
        /\ \A px \in Pixels(query.depth) :
              LET p == result.returned[px[1]][px[2]]
                  z == query.depth[px[1]][px[2]]
              IN  /\ p[3] = z
                  /\ FMul(p[1], query.intr.fx) = FMul(FSub(Float(px[2] - 1), query.intr.cx), z)
                  /\ FMul(p[2], query.intr.fy) = FMul(FSub(Float(px[1] - 1), query.intr.cy), z)

\* a grid wider than high with a pixel of depth <= 0 and a point with a
\* fractional coordinate
C14_Witness ==
    /\ PointsReturned
    /\ Width(query.depth) > Height(query.depth)
    /\ \E px \in Pixels(query.depth) : ~FGt0(query.depth[px[1]][px[2]])
    /\ \E px \in Pixels(query.depth) : result.returned[px[1]][px[2]][1].d = 2

----------------------------------------------------------------------------
(* Properties of the quaternion calls (SpecCalls).                         *)

OrientationReturned ==
    /\ Returned
    /\ query.fn \in {"imu_only_camera_orientation", "frame_loop_camera_orientation"}

SquaredNorm(q) ==
    FAdd(FAdd(FMul(q[1], q[1]), FMul(q[2], q[2])),
         FAdd(FMul(q[3], q[3]), FMul(q[4], q[4])))

\* C15: a camera rotation handed to the sink by the IMU-only loop or by
\* the frame loop is finite and of unit norm, and it is the identity
\* [0, 0, 0, 1] when the composed quaternion was not normalized; a call
\* that raises hands nothing to the sink.
C15_EmittedQuaternionIsUnit ==
    OrientationReturned =>
        /\ result.returned.raised => ~result.returned.emitted
        /\ result.returned.emitted =>
              /\ all_finite(result.returned.rotation)
              /\ SquaredNorm(result.returned.rotation) = Float(1)
              /\ result.returned.identity_fallback =>
                    result.returned.rotation = IdentityQuaternion

\* the frame loop composed an attitude rolled by 2 atan(3/4) and pitched
\* by a half turn, and logged a unit quaternion that has all four
\* components at work
C15_Witness ==
    /\ OrientationReturned
    /\ query.fn = "frame_loop_camera_orientation"
    /\ query.attitude.roll = Angle(Rat(4, 5), Rat(3, 5))
    /\ query.attitude.yaw = Angle(Rat(4, 5), Rat(3, 5))
    /\ result.returned.emitted
    /\ ~result.returned.identity_fallback
    /\ \A k \in 1..4 : result.returned.rotation[k] # Float(0)
    /\ SquaredNorm(result.returned.rotation) = Float(1)

RotateReturned == Returned /\ query.fn = "rotate_vector_by_quaternion"

\* the vector part of q * (v, 0) * conj(q)
Sandwich(v, q) ==
    SubSeq(compose_quat(compose_quat(q, Quat(v[1], v[2], v[3], Float(0))),
                        Quat(FNeg(q[1]), FNeg(q[2]), FNeg(q[3]), q[4])),
           1, 3)

\* C16: for a unit quaternion q and any vector v, the zero vector
\* included, rotate_vector_by_quaternion returns the vector part of
\* q * (v, 0) * conj(q); the identity quaternion returns v itself.
C16_RotateIsSandwich ==
    RotateReturned =>
        /\ ~result.returned.raised
        /\ result.returned.value = Sandwich(query.v, query.q)
        /\ query.q = IdentityQuaternion => result.returned.value = query.v

----------------------------------------------------------------------------
(* Properties of the ingestion calls (SpecCalls).                          *)

ParseReturned == Returned /\ query.fn = "parse_imu_bin"

ValidLines(lines) == {n \in 1..Len(lines) : yields_event(lines[n])}

MalformedLines(lines) ==
    {n \in 1..Len(lines) : ~is_blank(lines[n]) /\ ~yields_event(lines[n])}

\* C17: parse_imu_bin returns one event per line of 10 or 13 numeric
\* fields, in file order, logs one warning per malformed line, and never
\* raises.
C17_OneEventPerValidLine ==
    ParseReturned =>
        /\ ~result.returned.raised
        /\ Len(result.returned.events) = Cardinality(ValidLines(query.lines))
        /\ \A n \in ValidLines(query.lines) :
              \E k \in 1..Len(result.returned.events) : result.returned.events[k].id = n - 1
        /\ \A k \in 1..(Len(result.returned.events) - 1) :
              result.returned.events[k].id < result.returned.events[k + 1].id
        /\ result.returned.warnings = Cardinality(MalformedLines(query.lines))

LoadDepthReturned == Returned /\ query.fn = "load_depth_frames"

\* C18: load_depth_frames skips, with one warning each, exactly the files
\* of unexpected element count and loads every other file, in order.
C18_BadDepthFileSkipped ==
    LoadDepthReturned =>
        /\ \A k \in 1..Len(query.files) :
              query.files[k].ok <=>
                  \E f \in 1..Len(result.returned.frames) : result.returned.frames[f] = k - 1
        /\ \A f \in 1..(Len(result.returned.frames) - 1) :
              result.returned.frames[f] < result.returned.frames[f + 1]
        /\ result.returned.warnings =
              Cardinality({k \in 1..Len(query.files) : ~query.files[k].ok})

\* a file of unexpected size ahead of a good one, which was loaded
C18_Witness ==
    /\ LoadDepthReturned
    /\ Len(query.files) >= 2
    /\ ~query.files[1].ok
    /\ query.files[2].ok
    /\ result.returned.frames = <<1>>
    /\ result.returned.warnings >= 1

----------------------------------------------------------------------------
(* Properties of a session (Spec), continued.                              *)

\* C19: once a nearest-timestamp lookup has run in the frame loop, the
\* lists it searches are ascending by timestamp: the IMU events, the pose
\* list and the depth timestamps.
C19_LookupsOnSortedLists ==
    (FramePrimary /\ lookups > 0) =>
        /\ IsSorted(Timestamps(imu_events))
        /\ IsSorted(depth_timestamps)
        /\ (camera_poses # None /\ camera_poses # Unloaded) =>
              IsSorted(Timestamps(camera_poses.poses))

\* the placeholder poses main() writes for the session
PlaceholderFor(folder) ==
    /\ folder.camera_poses.exists
    /\ Len(folder.camera_poses.data) = Len(session_folder.imu)
    /\ \A k \in 1..Len(session_folder.imu) :
          /\ folder.camera_poses.data[k].timestamp = session_folder.imu[k].timestamp
          /\ folder.camera_poses.data[k].matrix = "identity"
    /\ \A f \in DOMAIN folder \ {"camera_poses"} : folder[f] = session_folder[f]

\* C20: main() writes a placeholder pose file exactly when the session has
\* no camera_poses.json and at least one IMU event: one identity pose per
\* IMU sample, in the order and with the timestamp of the sample.
\* Otherwise, and in every later step, the session's files stay as they
\* are.
C20_PlaceholderPerImuSample ==
    [][IF /\ pc = "NotStarted"
          /\ ~session_folder.camera_poses.exists
          /\ session_folder.imu # <<>>
       THEN PlaceholderFor(session_folder')
       ELSE session_folder' = session_folder]_vars

\* a placeholder of two poses written in the (descending) order of the IMU
\* file
C20_Witness ==
    /\ pc = "Initializing"
    /\ session_folder.camera_poses.exists
    /\ Len(session_folder.camera_poses.data) = 2
    /\ Len(session_folder.imu) = 2
    /\ session_folder.camera_poses.data[1].timestamp
          > session_folder.camera_poses.data[2].timestamp
    /\ \A k \in 1..2 :
          /\ session_folder.camera_poses.data[k].timestamp = session_folder.imu[k].timestamp
          /\ session_folder.camera_poses.data[k].matrix = "identity"
----------------------------------------------------------------------------
(* Bucket mirror, src/robo-rewind/mirror_bucket.py: mirror_bucket() lists  *)
(* the bucket, writes the metadata file, and submits one download_task per *)
(* listed file to a thread pool; download_task skips a file whose local    *)
(* path exists and otherwise calls download_file, which fetches the        *)
(* content and writes it straight to the local path.  The state of a local *)
(* file is "absent", "partial" (opened for writing, content not yet        *)
(* written in full) or "complete" (holds the remote content).  The state   *)
(* of a task is "unlisted" (the listing did not return the file),          *)
(* "unsubmitted", "queued", "downloading", "fetched", "opened", then       *)
(* "skipped", "downloaded" or "failed", and "collected".                   *)

\* most files of the remote bucket
MaxFiles == 3
\* most invocations of a bucket program in one behaviour
MaxRuns == 2
\* size of the worker pool, line 99
max_workers == 32

\* the files of a bucket are named 1, 2, ...
Buckets == {1..n : n \in 0..MaxFiles}

\* the names of a set of files in the order the bucket lists them
in_bucket_order(files) ==
    [k \in 1..Cardinality(files) |->
        CHOOSE f \in files : Cardinality({g \in files : g < f}) = k - 1]

\* the list() requests of one listing that raise, as the files they hide:
\* file f lies in a folder of its own, Scan-f, listed by the recursive call
\* of line 46, whose handler (lines 49-51) returns [] for the folder; when
\* the request for the root raises, the handler returns [] for the bucket
ListingFailures(b) == SUBSET b

\* list_bucket_files, lines 32-51: the files under the requests that did
\* not raise
list_bucket_files(b, hidden) == in_bucket_order(b \ hidden)

\* METADATA_FILE after open(METADATA_FILE, 'w'), line 77, and before
\* json.dump has written to it: the file exists, is empty and holds no JSON
EmptyFile == [exists |-> TRUE, empty |-> TRUE]

\* the metadata of lines 77-83
MirrorMetadata(files) == File([file_count |-> Len(files), files |-> files])

\* download_task without the skip of lines 92-95: the path never counts as
\* existing
out_path_exists_never(state) == FALSE

\* out_path.exists(), line 93
out_path_exists(state) == state # "absent"

\* a download_task occupies a worker
Running == {f \in DOMAIN tasks : tasks[f] \in {"downloading", "fetched", "opened"}}

\* the tasks still in the pool's work queue
Queued == {f \in DOMAIN tasks : tasks[f] = "queued"}

\* the value a finished download_task returned
task_result(state) == state \in {"skipped", "downloaded"}

InitMirror ==
    /\ query = Idle
    /\ result = Idle
    /\ SessionIdle
    /\ bucket \in Buckets
    /\ all_files = <<>>
    /\ local_files = [f \in bucket |-> "absent"]
    /\ metadata = NoFile
    /\ tasks = [f \in bucket |-> "unsubmitted"]
    /\ local_metadata = <<>>
    /\ new_files = <<>>
    /\ file_idx = 0
    /\ success_count = 0
    /\ run = 0
    /\ attempts = {}
    /\ succeeded = {}
    /\ after_clean_run = FALSE
    /\ bucket_pc = "NotStarted"

\* what no step of the mirror touches
mirrorUnchanged == <<query, result, sessionVarsOnly, bucket, local_metadata,
                     new_files, file_idx>>

\* the positions of the program between two invocations
Stopped == {"NotStarted", "Done", "Aborted", "Cleared"}

\* mirror_bucket(), lines 67-74: the listing has returned, whole or
\* without the files under the requests that raised
MirrorStart ==
    /\ bucket_pc \in Stopped
    /\ run < MaxRuns
    /\ \E hidden \in ListingFailures(bucket) :
          /\ all_files' = list_bucket_files(bucket, hidden)
          /\ tasks' = [f \in bucket |->
                          IF f \in hidden THEN "unlisted" ELSE "unsubmitted"]
    /\ run' = run + 1
    /\ attempts' = {}
    /\ after_clean_run' = /\ bucket_pc = "Done"
                          /\ Len(all_files) = Cardinality(bucket)
                          /\ success_count = Len(all_files)
    /\ bucket_pc' = "Listed"
    /\ UNCHANGED <<mirrorUnchanged, local_files, metadata, success_count, succeeded>>

\* line 77: open(METADATA_FILE, 'w') creates the file or truncates it
OpenMetadata ==
    /\ bucket_pc = "Listed"
    /\ metadata' = EmptyFile
    /\ bucket_pc' = "MetadataOpened"
    /\ UNCHANGED <<mirrorUnchanged, all_files, local_files, tasks, success_count,
                   run, attempts, succeeded, after_clean_run>>

\* lines 78-99: json.dump writes the metadata, the counter is set to zero
\* and the pool created; without a listed file the loops of lines 100-105
\* do nothing
SaveMetadata ==
    /\ bucket_pc = "MetadataOpened"
    /\ metadata' = MirrorMetadata(all_files)
    /\ success_count' = 0
    /\ bucket_pc' = IF all_files = <<>> THEN "Done" ELSE "Submitting"
    /\ UNCHANGED <<mirrorUnchanged, all_files, local_files, tasks, run, attempts,
                   succeeded, after_clean_run>>

\* line 100: executor.submit for the next listed file, while the workers
\* run the tasks submitted before it
Submit(f) ==
    /\ bucket_pc = "Submitting"
    /\ f \in DOMAIN tasks
    /\ tasks[f] = "unsubmitted"
    /\ \A g \in DOMAIN tasks : tasks[g] = "unsubmitted" => f <= g
    /\ tasks' = [tasks EXCEPT ![f] = "queued"]
    /\ bucket_pc' = IF \E g \in DOMAIN tasks' : tasks'[g] = "unsubmitted"
                    THEN "Submitting" ELSE "Downloading"
    /\ UNCHANGED <<mirrorUnchanged, all_files, local_files, metadata, success_count,
                   run, attempts, succeeded, after_clean_run>>

\* the pool is at work from the first submit to the end of the with block
PoolAtWork == bucket_pc \in {"Submitting", "Downloading"}

\* a worker thread runs a queued task: download_task, lines 87-96, up to
\* the call of download_file.  The pool starts a thread per submitted task
\* up to max_workers, and the threads reach line 93 in any order
TaskStart(f) ==
    /\ PoolAtWork
    /\ f \in Queued
    /\ Cardinality(Running) < max_workers
    /\ IF out_path_exists(local_files[f])
       THEN /\ tasks' = [tasks EXCEPT ![f] = "skipped"]
            /\ UNCHANGED attempts
       ELSE /\ tasks' = [tasks EXCEPT ![f] = "downloading"]
            /\ attempts' = attempts \cup {f}
    /\ UNCHANGED <<mirrorUnchanged, all_files, local_files, metadata, success_count,
                   run, succeeded, after_clean_run, bucket_pc>>

\* download_file, line 56: the request returns the content or raises
Fetch(f) ==
    /\ PoolAtWork
    /\ f \in DOMAIN tasks
    /\ tasks[f] = "downloading"
    /\ \/ tasks' = [tasks EXCEPT ![f] = "fetched"]
       \/ tasks' = [tasks EXCEPT ![f] = "failed"]
    /\ UNCHANGED <<mirrorUnchanged, all_files, local_files, metadata, success_count,
                   run, attempts, succeeded, after_clean_run, bucket_pc>>

\* download_file, lines 58-59: open(out_path, "wb") creates the file
\* empty, or os.makedirs or open raises, no file is created and the
\* exception handler of lines 63-65 returns False
Open(f) ==
    /\ PoolAtWork
    /\ f \in DOMAIN tasks
    /\ tasks[f] = "fetched"
    /\ \/ /\ tasks' = [tasks EXCEPT ![f] = "opened"]
          /\ local_files' = [local_files EXCEPT ![f] = "partial"]
       \/ /\ tasks' = [tasks EXCEPT ![f] = "failed"]
          /\ UNCHANGED local_files
    /\ UNCHANGED <<mirrorUnchanged, all_files, metadata, success_count,
                   run, attempts, succeeded, after_clean_run, bucket_pc>>

\* download_file, lines 60-65: the content is written in full, or the write
\* raises and the exception handler returns False
Write(f) ==
    /\ PoolAtWork
    /\ f \in DOMAIN tasks
    /\ tasks[f] = "opened"
    /\ \/ /\ tasks' = [tasks EXCEPT ![f] = "downloaded"]
          /\ local_files' = [local_files EXCEPT ![f] = "complete"]
          /\ succeeded' = succeeded \cup {f}
       \/ /\ tasks' = [tasks EXCEPT ![f] = "failed"]
          /\ UNCHANGED <<local_files, succeeded>>
    /\ UNCHANGED <<mirrorUnchanged, all_files, metadata, success_count,
                   run, attempts, after_clean_run, bucket_pc>>

\* the loop over as_completed, lines 101-105, entered when every task is
\* submitted: the next finished task's result
Collect(f) ==
    /\ bucket_pc = "Downloading"
    /\ f \in DOMAIN tasks
    /\ tasks[f] \in {"skipped", "downloaded", "failed"}
    /\ success_count' = IF task_result(tasks[f]) THEN success_count + 1
                        ELSE success_count
    /\ tasks' = [tasks EXCEPT ![f] = "collected"]
    /\ bucket_pc' = IF \A g \in DOMAIN tasks' : tasks'[g] \in {"collected", "unlisted"}
                    THEN "Done" ELSE "Downloading"
    /\ UNCHANGED <<mirrorUnchanged, all_files, local_files, metadata,
                   run, attempts, succeeded, after_clean_run>>

\* the process is stopped inside mirror_bucket(): every file stays as the
\* last step left it, the metadata file empty when the stop falls between
\* line 77 and json.dump
Abort ==
    /\ bucket_pc \in {"Listed", "MetadataOpened", "Submitting", "Downloading"}
    /\ bucket_pc' = "Aborted"
    /\ UNCHANGED <<mirrorUnchanged, all_files, local_files, metadata, tasks,
                   success_count, run, attempts, succeeded, after_clean_run>>

\* clear_local_data(), lines 221-229, called between two invocations: the
\* data directory is removed with the metadata file in it and created empty
clear_local_data ==
    /\ bucket_pc \in {"Done", "Aborted"}
    /\ local_files' = [f \in bucket |-> "absent"]
    /\ metadata' = NoFile
    /\ bucket_pc' = "Cleared"
    /\ after_clean_run' = FALSE
    /\ UNCHANGED <<mirrorUnchanged, all_files, tasks, success_count, run, attempts,
                   succeeded>>

NextMirror ==
    \/ MirrorStart
    \/ OpenMetadata
    \/ SaveMetadata
    \/ \E f \in bucket : Submit(f)
    \/ \E f \in bucket : TaskStart(f)
    \/ \E f \in bucket : Fetch(f)
    \/ \E f \in bucket : Open(f)
    \/ \E f \in bucket : Write(f)
    \/ \E f \in bucket : Collect(f)
    \/ Abort
    \/ clear_local_data

SpecMirror == InitMirror /\ [][NextMirror]_vars
----------------------------------------------------------------------------
(* Properties of the bucket mirror (SpecMirror).                           *)

\* C21: the bulk download never leaves a partial file to be taken for a
\* downloaded one: under every interleaving of the tasks and every abort
\* point, a file that the skip-if-exists check of a later invocation
\* accepts as already downloaded holds the complete remote content.
C21_SkipNeverAcceptsPartial ==
    \A f \in DOMAIN tasks : tasks[f] = "skipped" => local_files[f] = "complete"

\* C22: an invocation that follows, on the same bucket, a run that listed
\* the bucket and in which every download succeeded hands no file to
\* download_file, skips every file it lists (each exists already, so no
\* local file is written), and when it is done reports as many successes
\* as files are listed.
C22_RerunIsIdempotent ==
    after_clean_run =>
        /\ attempts = {}
        /\ \A f \in DOMAIN tasks :
              tasks[f] \in {"unlisted", "unsubmitted", "queued", "skipped", "collected"}
        /\ \A f \in DOMAIN local_files : local_files[f] # "absent"
        /\ bucket_pc = "Done" => success_count = Len(all_files)

\* a re-run that listed and skipped every file of a bucket of two or more,
\* all downloaded by the run before it
C22_Witness ==
    /\ after_clean_run
    /\ bucket_pc = "Done"
    /\ Len(all_files) >= 2
    /\ Len(all_files) = Cardinality(bucket)
    /\ success_count = Len(all_files)
    /\ succeeded = bucket
----------------------------------------------------------------------------
(* Successive calls of the geometric operations of compute_optical_flow.py *)
(* on arrays the caller keeps (SpecPure).  query.given is what the caller  *)
(* built, query.held is what the arrays hold now; result is the list of    *)
(* the calls made so far with what each returned.                          *)

\* most calls made on the same arrays
MaxCalls == 3

\* every depth grid, between the identity pose and a pose turned a quarter
\* about Z and moved
PureInputs ==
    {[depth |-> d, pose1 |-> RigidPose(IdentityRotation, <<0, 0, 0>>),
      pose2 |-> RigidPose(<<<<0, -1, 0>>, <<1, 0, 0>>, <<0, 0, 1>>>>, <<1, 0, 1>>),
      intr |-> Intr(2, 1, 1, 1)] : d \in DepthGrids}

\* One statement of a function body that binds or writes an array: its
\* line, the name it binds or writes through, and what it does with
\* storage.  "new": the name is bound to a freshly allocated array (arange,
\* meshgrid, astype, arithmetic, a comparison, concatenate, the matrix
\* product, stack, zeros, linalg.inv); "view": the name is bound to an
\* array on the storage of the array named of[1] (indexing with an ellipsis
\* or a slice, reshape, a plain name); "call": the name is bound to what
\* the function of[1] returns for the arguments Tail(of); "store": an
\* indexed assignment writes of[1] into the storage of the name.  The name
\* "return" stands for the returned array.  No statement of lines 28-67
\* binds or writes a module-level name.
Stmt(line, target, kind, of) ==
    [line |-> line, target |-> target, kind |-> kind, of |-> of]

\* the parameters of the four operations, lines 28, 38, 44 and 52
params(fn) ==
    CASE fn = "depth_to_points"  -> <<"depth", "intr">>
      [] fn = "transform_points" -> <<"points", "pose">>
      [] fn = "project_points"   -> <<"points", "intr">>
      [] fn = "compute_flow"     -> <<"depth1", "depth2", "pose1", "pose2", "intr">>

\* depth_to_points, lines 28-36: z is depth.astype(np.float32), a copy
depth_to_points_body ==
    <<Stmt(30, "xs", "new", <<>>),
      Stmt(31, "ys", "new", <<>>),
      Stmt(32, "grid_x", "new", <<>>),
      Stmt(32, "grid_y", "new", <<>>),
      Stmt(33, "z", "new", <<>>),
      Stmt(34, "x", "new", <<>>),
      Stmt(35, "y", "new", <<>>),
      Stmt(36, "return", "new", <<>>)>>

\* transform_points, lines 38-42: np.concatenate and the matrix product
\* allocate, the returned array is a slice of world, reshaped
transform_points_body ==
    <<Stmt(40, "pts_h", "new", <<>>),
      Stmt(41, "world", "new", <<>>),
      Stmt(42, "return", "view", <<"world">>)>>

\* project_points, lines 44-50: X, Y and Z index into points
project_points_body ==
    <<Stmt(45, "X", "view", <<"points">>),
      Stmt(46, "Y", "view", <<"points">>),
      Stmt(47, "Z", "view", <<"points">>),
      Stmt(48, "u", "new", <<>>),
      Stmt(49, "v", "new", <<>>),
      Stmt(50, "return", "new", <<>>)>>

\* compute_flow, lines 52-67: the three indexed assignments are into flow
compute_flow_body ==
    <<Stmt(54, "pts1", "call", <<"depth_to_points", "depth1", "intr">>),
      Stmt(55, "world", "call", <<"transform_points", "pts1", "pose1">>),
      Stmt(56, "cam2_inv", "new", <<>>),
      Stmt(57, "pts2_cam", "call", <<"transform_points", "world", "cam2_inv">>),
      Stmt(58, "proj", "call", <<"project_points", "pts2_cam", "intr">>),
      Stmt(59, "xs", "new", <<>>),
      Stmt(60, "ys", "new", <<>>),
      Stmt(61, "grid_x", "new", <<>>),
      Stmt(61, "grid_y", "new", <<>>),
      Stmt(62, "flow", "new", <<>>),
      Stmt(63, "valid", "new", <<>>),
      Stmt(64, "flow", "store", <<"proj_x_minus_grid_x">>),
      Stmt(65, "flow", "store", <<"proj_y_minus_grid_y">>),
      Stmt(66, "flow", "store", <<"nan_where_invalid">>),
      Stmt(67, "return", "view", <<"flow">>)>>

\* compute_flow masking the invalid pixels in the depth grid it was given
\* (depth1[~valid] = np.nan at line 66) instead of in its own flow array
statements_masking_depth(fn) ==
    CASE fn = "depth_to_points"  -> depth_to_points_body
      [] fn = "transform_points" -> transform_points_body
      [] fn = "project_points"   -> project_points_body
      [] fn = "compute_flow"     ->
            [k \in 1..Len(compute_flow_body) |->
                IF compute_flow_body[k].line = 66
                THEN Stmt(66, "depth1", "store", <<"nan_where_invalid">>)
                ELSE compute_flow_body[k]]

\* the body of an operation
statements(fn) ==
    CASE fn = "depth_to_points"  -> depth_to_points_body
      [] fn = "transform_points" -> transform_points_body
      [] fn = "project_points"   -> project_points_body
      [] fn = "compute_flow"     -> compute_flow_body

is_param(fn, name) == \E k \in 1..Len(params(fn)) : params(fn)[k] = name

param_index(fn, name) == CHOOSE k \in 1..Len(params(fn)) : params(fn)[k] = name

\* the storage a name of fn refers to: a parameter (the caller's array), or
\* the local name that was bound to a fresh array
RECURSIVE storage(_, _)
storage(fn, name) ==
    IF is_param(fn, name) THEN name
    ELSE LET body == statements(fn)
             s    == body[CHOOSE k \in 1..Len(body) :
                              body[k].target = name /\ body[k].kind # "store"]
         IN  CASE s.kind = "new"  -> name
               [] s.kind = "view" -> storage(fn, s.of[1])
               [] s.kind = "call" ->
                     LET callee   == s.of[1]
                         returned == storage(callee, "return")
                     IN  IF is_param(callee, returned)
                         THEN storage(fn, s.of[1 + param_index(callee, returned)])
                         ELSE name

\* the number of axes of the array a storage of fn holds: flow is
\* np.zeros((h, w, 2)) (line 62), points unpacks to h, w, _ (line 39), a
\* depth grid to h, w (lines 29, 53), a pose is a 4x4 matrix
ndim(fn, name) ==
    CASE name \in {"flow", "points"} -> 3
      [] name \in {"depth", "depth1", "depth2", "pose", "pose1", "pose2"} -> 2

\* the stores a call of fn executes, in order, each with the storage of fn
\* it writes through: its own indexed assignments, and those of the
\* functions it calls that go through an argument
RECURSIVE writes(_)
writes_of(fn, s) ==
    CASE s.kind = "store" ->
            <<[through |-> storage(fn, s.target), line |-> s.line, what |-> s.of[1]]>>
      [] s.kind = "call" ->
            LET callee == s.of[1]
                inner  == SelectSeq(writes(callee), LAMBDA w : is_param(callee, w.through))
            IN  [k \in 1..Len(inner) |->
                    [through |-> storage(fn, s.of[1 + param_index(callee, inner[k].through)]),
                     line    |-> s.line,
                     what    |-> inner[k].what]]
      [] OTHER -> <<>>

RECURSIVE writes_upto(_, _)
writes_upto(fn, k) ==
    IF k = 0 THEN <<>>
    ELSE writes_upto(fn, k - 1) \o writes_of(fn, statements(fn)[k])

writes(fn) == writes_upto(fn, Len(statements(fn)))

\* the line at which a call raises, 0 when it returns: np.linalg.inv of a
\* singular pose2, line 56
raised_at(fn, args) ==
    IF fn = "compute_flow" /\ Det(args.pose2) = Float(0) THEN 56 ELSE 0

\* what a store of compute_flow leaves in an array of the given number of
\* axes that held old: lines 64 and 65 assign component 0 and 1 of every
\* pixel of an (h, w, 2) array; line 66 assigns NaN to everything under the
\* pixels where valid (line 63) is false, both components of a pixel of an
\* (h, w, 2) array, the one value of a pixel of an (h, w) array
stored(what, args, old, axes) ==
    LET pts2_cam == transform_points(
                        transform_points(depth_to_points(args.depth1, args.intr),
                                         args.pose1),
                        linalg_inv(args.pose2))
        proj     == project_points(pts2_cam, args.intr)
    IN  [r \in 1..Height(old) |-> [c \in 1..Width(old) |->
            CASE what = "proj_x_minus_grid_x" ->
                    [old[r][c] EXCEPT ![1] = FSub(proj[r][c][1], Float(c - 1))]
              [] what = "proj_y_minus_grid_y" ->
                    [old[r][c] EXCEPT ![2] = FSub(proj[r][c][2], Float(r - 1))]
              [] what = "nan_where_invalid" ->
                    IF valid_mask(args.depth1[r][c], pts2_cam[r][c][3])
                    THEN old[r][c]
                    ELSE IF axes = 2 THEN NaN
                    ELSE [k \in 1..Len(old[r][c]) |-> NaN]]]

\* the caller's arrays after the stores ws, where bind gives for each
\* parameter the array of the caller it was passed ("temporary" for the
\* result of another call)
RECURSIVE after_writes(_, _, _, _, _)
after_writes(fn, ws, bind, args, held) ==
    IF Len(ws) = 0 THEN held
    ELSE LET w == Head(ws)
         IN  after_writes(fn, Tail(ws), bind, args,
                 IF w.through \in DOMAIN bind /\ bind[w.through] \in DOMAIN held
                 THEN [held EXCEPT ![bind[w.through]] =
                          stored(w.what, args, @, ndim(fn, w.through))]
                 ELSE held)

\* the caller's arrays after a call of fn, lines 28-67: every store the
\* call executed before it returned or raised, applied to the array it
\* goes through
inputs_after(fn, bind, held) ==
    LET args == [p \in {q \in DOMAIN bind : bind[q] \in DOMAIN held} |-> held[bind[p]]]
        stop == raised_at(fn, args)
        ws   == SelectSeq(writes(fn), LAMBDA w : stop = 0 \/ w.line < stop)
    IN  after_writes(fn, ws, bind, args, held)

InitPure ==
    /\ query \in {[given |-> x, held |-> x] : x \in PureInputs}
    /\ result = <<>>
    /\ SessionIdle
    /\ BucketIdle

\* one call: what it returns is computed from the arrays as they are now,
\* and the arrays are left as its stores leave them
PureCall(fn, bind, out) ==
    /\ Len(result) < MaxCalls
    /\ result' = Append(result, [fn |-> fn, out |-> out])
    /\ query' = [query EXCEPT !.held = inputs_after(fn, bind, query.held)]
    /\ UNCHANGED sessionVars

PureDepthToPoints ==
    PureCall("depth_to_points", [depth |-> "depth", intr |-> "intr"],
             depth_to_points(query.held.depth, query.held.intr))

PureTransformPoints ==
    PureCall("transform_points", [points |-> "temporary", pose |-> "pose1"],
             transform_points(depth_to_points(query.held.depth, query.held.intr),
                              query.held.pose1))

PureProjectPoints ==
    PureCall("project_points", [points |-> "temporary", intr |-> "intr"],
             project_points(depth_to_points(query.held.depth, query.held.intr),
                            query.held.intr))

PureComputeFlow ==
    PureCall("compute_flow",
             [depth1 |-> "depth", depth2 |-> "depth", pose1 |-> "pose1",
              pose2 |-> "pose2", intr |-> "intr"],
             compute_flow(query.held.depth, query.held.depth, query.held.pose1,
                          query.held.pose2, query.held.intr))

NextPure ==
    \/ PureDepthToPoints
    \/ PureTransformPoints
    \/ PureProjectPoints
    \/ PureComputeFlow

SpecPure == InitPure /\ [][NextPure]_vars
----------------------------------------------------------------------------
(* Properties of successive geometric calls (SpecPure).                    *)

\* C23: depth_to_points, transform_points, project_points and compute_flow
\* leave the depth grid, the pose matrices and the intrinsics they are
\* given as they were, and two calls of the same operation return equal
\* outputs whatever was called in between.
C23_CallsLeaveInputsAndRepeat ==
    /\ query.held = query.given
    /\ \A k \in 1..Len(result) : \A l \in 1..Len(result) :
          result[k].fn = result[l].fn => result[k].out = result[l].out

C23_Witness ==
    /\ Len(result) = 3
    /\ result[1].fn = "compute_flow"
    /\ result[2].fn = "depth_to_points"
    /\ result[3].fn = "compute_flow"
    /\ ~result[3].out.raised
    /\ \E p \in Pixels(query.given.depth) : IsNaN(result[3].out.flow[p[1]][p[2]][1])
    /\ \E p \in Pixels(query.given.depth) : ~IsNaN(result[3].out.flow[p[1]][p[2]][1])
----------------------------------------------------------------------------
(* Properties of the depth frame handed to the sink (SpecCalls).           *)

DepthForSinkReturned == Returned /\ query.fn = "depth_for_sink"

GridValues(grid) == {grid[p[1]][p[2]] : p \in Pixels(grid)}

GridMin(grid) == CHOOSE v \in GridValues(grid) : \A u \in GridValues(grid) : ~FGt(v, u)

GridMax(grid) == CHOOSE v \in GridValues(grid) : \A u \in GridValues(grid) : ~FGt(u, v)

\* C24: the depth frame handed to the sink has the video frame's (height,
\* width); when the depth frame's shape differs from the video frame's its
\* minimum and maximum are those of the original frame, and when the
\* shapes are equal it is the original frame.
C24_ResampledKeepsShapeAndRange ==
    DepthForSinkReturned =>
        /\ shape(result.returned) = query.rgb_shape
        /\ shape(query.depth) # query.rgb_shape =>
              /\ GridMin(result.returned) = GridMin(query.depth)
              /\ GridMax(result.returned) = GridMax(query.depth)
        /\ shape(query.depth) = query.rgb_shape => result.returned = query.depth
----------------------------------------------------------------------------
(* Properties of the frame loop's depth lookup (SpecCalls).                *)

ClosestDepthReturned == Returned /\ query.fn = "closest_depth_idx"

\* C25: the depth sample the frame loop attaches to a step with timestamp t
\* is the nearest one as the timestamp index defines it: of minimum
\* |timestamp - t|, clamped at both ends, and on an exact tie between two
\* depth timestamps the later one.
C25_DepthLookupTieGoesLater ==
    ClosestDepthReturned =>
        LET ts == query.timestamps
            j  == result.returned + 1
        IN  /\ j \in 1..Len(ts)
            /\ \A k \in 1..Len(ts) :
                  /\ Abs(ts[j] - query.t) <= Abs(ts[k] - query.t)
                  /\ Abs(ts[j] - query.t) = Abs(ts[k] - query.t) => ts[k] <= ts[j]
----------------------------------------------------------------------------
(* Properties of the flow fields written (SpecFlow).                       *)

\* the timestamp in the name of the file a loaded depth frame came from
SourceTimestamp(frame) == session_folder.depth[frame + 1].timestamp

\* C26: for N loaded depth frames the flow driver writes N-1 flow fields,
\* one per consecutive pair in order; the i-th is keyed by the timestamp of
\* the file of depth frame i and is computed from frame i with the poses
\* nearest to the timestamps of frames i and i+1, also when depth files
\* were skipped.
C26_FlowKeyedBySourceFrame ==
    /\ pc = "Finished" /\ depth_frames # <<>> =>
          Len(saved_flows) = Len(depth_frames) - 1
    /\ \A k \in 1..Len(saved_flows) :
          /\ saved_flows[k].depth1 = depth_frames[k]
          /\ saved_flows[k].name = SourceTimestamp(depth_frames[k])
          /\ saved_flows[k].pose1 =
                find_closest_pose(SourceTimestamp(depth_frames[k]), camera_poses.poses)
          /\ saved_flows[k].pose2 =
                find_closest_pose(SourceTimestamp(depth_frames[k + 1]), camera_poses.poses)
----------------------------------------------------------------------------
(* Properties of the lists load_depth_frames returns (SpecCalls).          *)

\* C27: load_depth_frames returns as many timestamps as frames, the i-th
\* timestamp being that of the file of the i-th frame, for every mix of
\* well-sized and wrong-sized files; hence the frame loop's closest-depth
\* index, chosen over the timestamps, is a valid index of the frames and
\* selects the frame with that timestamp.
C27_FramesMatchTimestamps ==
    LoadDepthReturned =>
        LET frames     == result.returned.frames
            timestamps == result.returned.timestamps
        IN  /\ Len(frames) = Len(timestamps)
            /\ \A k \in 1..Len(frames) :
                  k <= Len(timestamps) /\ timestamps[k] = query.files[frames[k] + 1].timestamp
            /\ frames # <<>> /\ timestamps # <<>> =>
                  \A t \in (-1)..(MaxTime + 1) :
                     LET j == closest_depth_idx(timestamps, t) + 1
                     IN  /\ j \in 1..Len(frames)
                         /\ query.files[frames[j] + 1].timestamp = timestamps[j]
----------------------------------------------------------------------------
(* Properties of the order of the two poses in compute_flow (SpecCalls).   *)

\* the rotation block of a pose is the identity
TranslationOnly(pose) ==
    \A r \in 1..3 : \A c \in 1..3 : pose[r][c] = Float(IF r = c THEN 1 ELSE 0)

\* z + t1.z - t2.z for the pixel's depth z
ShiftedZ(r, c) ==
    FSub(FAdd(query.depth1[r][c], query.pose1[3][4]), query.pose2[3][4])

\* the flow of pixel (px, py) = (c - 1, r - 1) between translation-only
\* poses: (fx (X + t1.x - t2.x) / (z + t1.z - t2.z) + cx - px,
\*         fy (Y + t1.y - t2.y) / (z + t1.z - t2.z) + cy - py)
TranslationFlow(r, c) ==
    LET p == CameraOnePoint(r, c)
        X == FSub(FAdd(p[1], query.pose1[1][4]), query.pose2[1][4])
        Y == FSub(FAdd(p[2], query.pose1[2][4]), query.pose2[2][4])
    IN  <<FSub(FAdd(FDiv(FMul(query.intr.fx, X), ShiftedZ(r, c)), query.intr.cx),
               Float(c - 1)),
          FSub(FAdd(FDiv(FMul(query.intr.fy, Y), ShiftedZ(r, c)), query.intr.cy),
               Float(r - 1))>>

\* C28: compute_flow takes camera-1 points to the world by pose1 and into
\* camera 2 by the inverse of pose2: between translation-only poses t1 and
\* t2, a pixel (px, py) of depth z > 0 with z + t1.z - t2.z > 0 has the
\* flow (fx (X + t1.x - t2.x) / (z + t1.z - t2.z) + cx - px,
\* fy (Y + t1.y - t2.y) / (z + t1.z - t2.z) + cy - py), whatever the second
\* depth frame holds.
C28_FlowIsPose1ThenInversePose2 ==
    (FlowReturned /\ TranslationOnly(query.pose1) /\ TranslationOnly(query.pose2)) =>
        \A px \in Pixels(query.depth1) :
            (FGt0(query.depth1[px[1]][px[2]]) /\ FGt0(ShiftedZ(px[1], px[2]))) =>
                result.returned.flow[px[1]][px[2]] = TranslationFlow(px[1], px[2])

\* two different translations, a second depth frame that differs from the
\* first, and a pixel that moves
C28_Witness ==
    /\ FlowReturned
    /\ TranslationOnly(query.pose1)
    /\ TranslationOnly(query.pose2)
    /\ query.pose1 # query.pose2
    /\ query.depth2 # query.depth1
    /\ \E px \in Pixels(query.depth1) :
          /\ FGt0(query.depth1[px[1]][px[2]])
          /\ FGt0(ShiftedZ(px[1], px[2]))
          /\ result.returned.flow[px[1]][px[2]] = TranslationFlow(px[1], px[2])
          /\ result.returned.flow[px[1]][px[2]] # <<Float(0), Float(0)>>
----------------------------------------------------------------------------
(* Properties of the camera transforms of the frame loop (Spec).           *)

FrameSteps == {k \in 1..Len(rr_log) : rr_log[k].kind = "frame"}

\* the pose nearest to the step's timestamp, None without poses
NearestPoseOf(step) ==
    IF camera_poses # None /\ camera_poses.poses # <<>>
    THEN find_closest_pose(step.timestamp, camera_poses.poses)
    ELSE None

\* a frame-loop step that had its timestamp ended with an exception before
\* it logged anything: the ValueError of the IMU orientation, line 561
StepRaisedInTransform ==
    /\ pc = "Raised"
    /\ primary \in {"video", "depth"}
    /\ i < Len(primary_timestamps)
    /\ Len(rr_log) = i

\* C29: every frame-loop step logs at most one camera transform: the one
\* built from the nearest pose's matrix when that pose exists and its
\* matrix differs from the identity; otherwise, when a nearest IMU event
\* exists, the one with the IMU orientation and the nearest pose's
\* translation (zero without a pose); otherwise none.  No step ends
\* without one of the three.
C29_OneCameraTransformPerStep ==
    /\ ~StepRaisedInTransform
    /\ \A k \in FrameSteps :
        LET step  == rr_log[k]
            pose  == NearestPoseOf(step)
            imu   == find_closest_imu_event(step.timestamp, imu_events)
            moved == pose # None /\ pose.matrix \notin {"identity", "near_identity"}
        IN  /\ Len(step.transforms) <= 1
            /\ moved =>
                  /\ Len(step.transforms) = 1
                  /\ step.transforms[1].rotation = "pose_matrix"
                  /\ step.transforms[1].translation = "moved"
            /\ (~moved /\ imu # None) =>
                  /\ Len(step.transforms) = 1
                  /\ step.transforms[1].rotation = "imu_orientation"
                  /\ step.transforms[1].translation =
                        (IF pose = None THEN "zero"
                         ELSE IF pose.matrix = "identity" THEN "zero"
                         ELSE "within_tolerance")
            /\ (~moved /\ imu = None) => step.transforms = <<>>
----------------------------------------------------------------------------
(* Incremental sync, src/sync_supabase_bucket.py: sync_bucket() lists the  *)
(* bucket, reads the metadata file, downloads one by one the listed files  *)
(* the metadata does not name, records each success in the metadata in     *)
(* memory and saves it at the end.  download_file catches HTTP errors      *)
(* only; any other exception ends sync_bucket before the metadata is       *)
(* saved.                                                                  *)

\* list_bucket_files, lines 21-35: the one listing of the bucket (line 32),
\* or [] on an HTTP error
ListingOutcomes == {"listed", "http_error"}

sync_list_bucket_files(b, outcome) ==
    IF outcome = "listed" THEN in_bucket_order(b) ELSE <<>>

\* download_file, lines 38-53: the content is written and True returned; an
\* HTTPError is caught and False returned; another exception leaves
\* sync_bucket, raised by the request before the file is opened or by the
\* write after open(out_path, "wb") of line 48 has created the file
DownloadOutcomes == {"ok", "http_error", "raised", "write_raised"}

\* the file at out_path after download_file
downloaded_file(state, outcome) ==
    IF outcome = "ok" THEN "complete"
    ELSE IF outcome = "write_raised" THEN "partial"
    ELSE state

\* load_metadata, lines 56-60: the files of the metadata file, [] without one
load_metadata(file) == IF file.exists THEN file.data.files ELSE <<>>

\* line 72: the names the metadata holds
local_file_names(files) == {files[k] : k \in 1..Len(files)}

\* sync_bucket recording the file whatever download_file returned
download_recorded_always(outcome) == TRUE

\* line 82: if download_file(file_path, out_path)
download_recorded(outcome) == outcome = "ok"

InitSync ==
    /\ query = Idle
    /\ result = Idle
    /\ SessionIdle
    /\ bucket \in Buckets
    /\ all_files = <<>>
    /\ local_files = [f \in bucket |-> "absent"]
    /\ metadata = NoFile
    /\ tasks = <<>>
    /\ local_metadata = <<>>
    /\ new_files = <<>>
    /\ file_idx = 0
    /\ success_count = 0
    /\ run = 0
    /\ attempts = {}
    /\ succeeded = {}
    /\ after_clean_run = FALSE
    /\ bucket_pc = "NotStarted"

\* what no step of the sync touches
syncUnchanged == <<query, result, sessionVarsOnly, bucket, tasks, after_clean_run>>

\* sync_bucket, lines 68-75: listing, metadata, the files to download
SyncStart ==
    /\ bucket_pc \in {"NotStarted", "Done", "Raised"}
    /\ run < MaxRuns
    /\ \E outcome \in ListingOutcomes :
          all_files' = sync_list_bucket_files(bucket, outcome)
    /\ local_metadata' = load_metadata(metadata)
    /\ new_files' = SelectSeq(all_files', LAMBDA f : f \notin local_file_names(local_metadata'))
    /\ file_idx' = 0
    /\ success_count' = 0
    /\ run' = run + 1
    /\ attempts' = {}
    /\ bucket_pc' = "Downloading"
    /\ UNCHANGED <<syncUnchanged, local_files, metadata, succeeded>>

\* one iteration of the loop of lines 76-84
SyncDownload ==
    /\ bucket_pc = "Downloading"
    /\ file_idx < Len(new_files)
    /\ LET file_path == new_files[file_idx + 1]
       IN  /\ attempts' = attempts \cup {file_path}
           /\ \E outcome \in DownloadOutcomes :
                 /\ local_files' = [local_files EXCEPT ![file_path] =
                                        downloaded_file(local_files[file_path], outcome)]
                 /\ IF outcome \in {"raised", "write_raised"}
                    THEN /\ bucket_pc' = "Raised"
                         /\ UNCHANGED <<local_metadata, success_count,
                                        succeeded, file_idx>>
                    ELSE /\ succeeded' = IF outcome = "ok"
                                         THEN succeeded \cup {file_path}
                                         ELSE succeeded
                         /\ success_count' = IF download_recorded(outcome)
                                             THEN success_count + 1 ELSE success_count
                         /\ local_metadata' = IF download_recorded(outcome)
                                              THEN Append(local_metadata, file_path)
                                              ELSE local_metadata
                         /\ file_idx' = file_idx + 1
                         /\ UNCHANGED bucket_pc
    /\ UNCHANGED <<syncUnchanged, all_files, metadata, new_files, run>>

\* lines 85-90: file_count and save_metadata
SyncSave ==
    /\ bucket_pc = "Downloading"
    /\ file_idx = Len(new_files)
    /\ metadata' = File([file_count |-> Len(local_metadata), files |-> local_metadata])
    /\ bucket_pc' = "Done"
    /\ UNCHANGED <<syncUnchanged, all_files, local_files, local_metadata, new_files,
                   file_idx, success_count, run, attempts, succeeded>>

NextSync == SyncStart \/ SyncDownload \/ SyncSave

SpecSync == InitSync /\ [][NextSync]_vars
----------------------------------------------------------------------------
(* Properties of the incremental sync (SpecSync).                          *)

\* the files the persisted metadata names
Listed == IF metadata.exists THEN Elements(metadata.data.files) ELSE {}

\* C30: after any sequence of sync_bucket runs, whatever the downloads did,
\* the persisted metadata names a file only if a download of it succeeded,
\* names no file twice and has file_count equal to the number of files it
\* names; a file it names is not handed to download_file again, and when a
\* run is done the attempted files it names are as many as the downloads
\* that succeeded in the run, and every file of the run's listing that it
\* does not name (its download failed) was attempted in that run.
C30_MetadataListsSuccessesOnce ==
    /\ Listed \subseteq succeeded
    /\ metadata.exists =>
          /\ Cardinality(Listed) = Len(metadata.data.files)
          /\ metadata.data.file_count = Len(metadata.data.files)
    /\ bucket_pc \in {"Downloading", "Raised"} => attempts \cap Listed = {}
    /\ bucket_pc = "Done" =>
          /\ Cardinality(attempts \cap Listed) = success_count
          /\ Elements(all_files) \ Listed \subseteq attempts

\* the second run is done: one file was listed by the first run and not
\* attempted again, one failed in the first run and succeeded now, one
\* failed again
C30_Witness ==
    /\ bucket_pc = "Done"
    /\ run = 2
    /\ Cardinality(Listed) = 2
    /\ Cardinality(attempts) = 2
    /\ Cardinality(attempts \cap Listed) = 1
    /\ Cardinality(bucket \ Listed) = 1
====
